---------------------------- MODULE Spec2Model ----------------------------
(***************************************************************************)
(* The asynchronous export-job engine of debtster_export: the four         *)
(* Start*Export entry points, the run*Export goroutine each of them        *)
(* starts, the two Redis representations of a job's status, the events     *)
(* handed to the WebSocket client, and ExportService.GetExport with the    *)
(* REST handler in front of it.                                            *)
(*                                                                         *)
(* An export ID ("exports:<uuid>") is modelled by the index of the Submit  *)
(* call that allocated it.  Every call a goroutine makes on Redis, the     *)
(* repository, the storage client and the WebSocket client is appended,    *)
(* in program order, to that job's log.                                    *)
(***************************************************************************)
EXTENDS Integers, Sequences, FiniteSets, TLC

VARIABLES
    jobs,       \* per Submit call: its arguments, its return value, and the
                \* locals of the goroutine it started (status, total, rows done)
    primary,    \* Redis: exportID -> ExportStatus (the JSON value), keys present only
    legacy,     \* Redis: cachePrefix + exportID -> the PHP-serialized item
    exportIds,  \* Redis set "export_ids"
    ttl,        \* Redis: the clock, and when each key expires and was last written
    log,        \* per job: the external calls made so far, in program order
    resp,       \* the response of the latest GET /exports/{export_id} request
    pTotal,     \* checkpoint arithmetic on its own: the row count,
    pDone,      \*   the rows rendered at the latest checkpoint,
    pProgress,  \*   and the progress that checkpoint reported
    hubPc,      \* Hub.Run: running, exited
    hubCtx,     \* the context Hub.Run was started with: active, cancelled
    connections,\* Hub.connections: userID -> set of connections, entries present only
    broadcast,  \* Hub.broadcast, the hub's inbound queue
    conns,      \* per connection: its socket, its outbound queue, its handler and pumps
    published,  \* every Broadcast call so far, in order, and whether it was dropped
    notifyRet,  \* what the latest NotifyExport* call returned
    s3call,     \* one UploadXLSX or GetTemporaryURL call: its loop and its context
    redisDown,  \* the Redis commands that fail at present: a subset of RedisOps
    fileReq     \* one file through StorageClient.Save and GET /files/{file}

vars == <<jobs, primary, legacy, exportIds, ttl, log, resp, pTotal, pDone, pProgress,
          hubPc, hubCtx, connections, broadcast, conns, published, notifyRet,
          s3call, redisDown, fileReq>>

jobVars == <<jobs, primary, legacy, exportIds, ttl, log>>

progressVars == <<pTotal, pDone, pProgress>>

hubVars == <<hubPc, hubCtx, connections, broadcast, conns, published, notifyRet>>

-----------------------------------------------------------------------------
(* Bounds of the model *)

\* Submit calls made in one behaviour.
MaxSubmits == 1

\* User identities (owners of jobs, callers of the read API).
MaxUsers == 2

\* Largest row count of the checkpoint arithmetic checked on its own.
MaxTotal == 3000

-----------------------------------------------------------------------------
(* Program constants *)

chunkSize == 1000

maxActionsForExport == 500000

maxPaymentsForExport == 500000

uploadProgress == 95

doneProgress == 100

-----------------------------------------------------------------------------
(* Inputs *)

Requests == 1..MaxSubmits

Users == 1..MaxUsers

Kinds == {"debts", "users", "actions", "payments"}

\* A nil *string.
Nil == "<nil>"

\* Row counts the data source returns: none, one chunk and a little more
\* (the last chunk boundary falls above 95 %), and the 2,500 rows of the
\* specification's example.
RowCounts == {0, chunkSize + 30, 2 * chunkSize + 500}

\* Results of the pre-flight COUNT(*): below, at and above the maximum.
PreflightCounts == {0, maxActionsForExport, maxActionsForExport + 1}

\* The column registries, cut down to the default keys of each kind.
Registry(kind) ==
    CASE kind = "debts"    -> {"number", "debtor.full_name", "amount_actual_debt"}
      [] kind = "users"    -> {"full_name", "username", "email", "departments"}
      [] kind = "actions"  -> {"debt.number", "actionType.name", "user.full_name",
                               "comment", "created_at"}
      [] kind = "payments" -> {"payment_date", "id", "debt_id"}

\* The selection a Start*Export call substitutes for an empty one.
DefaultFields(kind) ==
    CASE kind = "debts"    -> <<"number", "debtor.full_name", "amount_actual_debt">>
      [] kind = "users"    -> <<"full_name", "username", "email", "departments">>
      [] kind = "actions"  -> <<"debt.number", "actionType.name", "user.full_name",
                                "comment", "created_at">>
      [] kind = "payments" -> <<"payment_date", "id", "debt_id">>

\* Field selections a client sends: none, only an unknown key, an unknown
\* key followed by a known one, two known keys out of the default order with
\* an unknown one between them.
Selections(kind) ==
    { <<>>, <<"bogus">>, <<"bogus", Head(DefaultFields(kind))>>,
      <<DefaultFields(kind)[2], "bogus", DefaultFields(kind)[1]>> }


-----------------------------------------------------------------------------
(* Pure parts of the services *)

\* The lookup giving the known keys in the order of the registry.
ResolveColumnsRegistryOrder(kind, selected) ==
    SelectSeq(DefaultFields(kind),
              LAMBDA key : \E i \in DOMAIN selected : selected[i] = key)

\* The registry lookup of run*Export: unknown keys are skipped, the rest
\* keep the order of the selection.
ResolveColumns(kind, selected) ==
    SelectSeq(selected, LAMBDA key : key \in Registry(kind))

\* math.Round(x) for x = num/den >= 0: halves round away from zero.
Round(num, den) == (2 * num + den) \div (2 * den)

\* The loop's checkpoint condition after row i (0-based): (i+1) rows are done.
IsCheckpoint(rowsDone, total) ==
    rowsDone % chunkSize = 0 \/ rowsDone = total

\* A loop whose only checkpoint is the final row.
NextCheckpointFinalOnly(rowsDone, total) == total

\* The number of rows done at the first checkpoint after `rowsDone` rows.
NextCheckpoint(rowsDone, total) ==
    CHOOSE n \in (rowsDone + 1)..total :
        /\ IsCheckpoint(n, total)
        /\ \A m \in (rowsDone + 1)..(n - 1) : ~IsCheckpoint(m, total)

\* CheckpointProgress without the clamp.
CheckpointProgressNoClamp(rowsDone, total) == Round(rowsDone * 100, total)

\* CheckpointProgress clamping only what is above 100.
CheckpointProgressClampAbove(rowsDone, total) ==
    LET progress == Round(rowsDone * 100, total)
    IN  IF progress > doneProgress THEN uploadProgress ELSE progress

\* raw := float64(i+1) / float64(total) * 100.0; progress := math.Round(raw);
\* if progress >= 100 { progress = 95 }
CheckpointProgress(rowsDone, total) ==
    LET progress == Round(rowsDone * 100, total)
    IN  IF progress >= doneProgress THEN uploadProgress ELSE progress

\* The kinds whose row loop has the checkpoint (runActionsExport has none).
HasCheckpoints(kind) == kind \in {"debts", "users", "payments"}

\* The kinds that store through S3Client (UploadXLSX, then GetTemporaryURL);
\* payments stores through StorageClient (Save, then GetURL, which cannot fail).
UsesS3(kind) == kind \in {"debts", "users", "actions"}

\* The kinds whose task has a branch for a failed upload.
ReportsUploadFailure(kind) == kind = "payments"

\* SELECT COUNT(*) > $1
HasMoreThan(count, limit) == count > limit

\* fileName := fmt.Sprintf("<kind>_%s.xlsx", time.Now().Format(...))
FileName(kind) ==
    CASE kind = "debts"    -> "debts_<ts>.xlsx"
      [] kind = "users"    -> "users_<ts>.xlsx"
      [] kind = "actions"  -> "actions_<ts>.xlsx"
      [] kind = "payments" -> "payments_<ts>.xlsx"

\* The address the storage gives: the presigned URL of the uploaded key, or
\* StorageClient.GetURL of the saved name.
FileURL(kind) ==
    CASE kind = "debts"    -> "https://s3/debts_<ts>.xlsx?sig"
      [] kind = "users"    -> "https://s3/users_<ts>.xlsx?sig"
      [] kind = "actions"  -> "https://s3/actions_<ts>.xlsx?sig"
      [] kind = "payments" -> "/files/<hex>_payments_<ts>.xlsx"

\* errStr := fmt.Sprintf("save export failed: %v", err)
SaveFailed == "save export failed"

\* The ExportStatus a Start*Export call and its task both begin with.
NewStatus(id, kind, selected, userID, now) ==
    [ key        |-> id,
      type       |-> kind,
      user_id    |-> userID,
      filters    |-> selected,
      progress   |-> 0,
      file_url   |-> Nil,
      error      |-> Nil,
      created_at |-> now ]

\* toCacheItem, then phpSerializeExportItem: seven entries, the filters
\* an empty array, an absent or empty URL the null marker, no error entry.
phpSerializeExportItem(st) ==
    [ key        |-> st.key,
      type       |-> st.type,
      user_id    |-> st.user_id,
      filters    |-> <<>>,
      progress   |-> st.progress,
      file_url   |-> IF st.file_url = Nil \/ st.file_url = "" THEN "N;" ELSE st.file_url,
      created_at |-> st.created_at ]

-----------------------------------------------------------------------------
(* The log of external calls *)

Call(op, progress, url, text) ==
    [ op |-> op, progress |-> progress, url |-> url, text |-> text ]

\* exportTTL = 20 * time.Minute, in minutes.
exportTTL == 20

\* Minutes that pass in one step of the clock.
TickMinutes == 10

\* The clock stops here.
MaxClock == 50

\* Redis at time 0 with no key written.
NoWrites == [now |-> 0, expireAt |-> <<>>, wroteAt |-> <<>>]

\* The commands of the two save functions.
RedisOps == {"set", "sadd", "set_legacy"}

\* saveExportStatus (SET, then SADD unless the SET failed) followed by
\* saveLaravelCache (SET).
SaveCalls(st) ==
    << Call("set", st.progress, st.file_url, st.error) >>
    \o (IF "set" \in redisDown THEN <<>> ELSE << Call("sadd", st.progress, Nil, Nil) >>)
    \o << Call("set_legacy", st.progress, phpSerializeExportItem(st).file_url, Nil) >>

\* WebSocketClient.NotifyExportProgress / NotifyExportComplete / NotifyExportFailed
NotifyExportProgress(progress, stage) == Call("export_progress", progress, Nil, stage)

NotifyExportComplete(url, filename) == Call("export_complete", -1, url, filename)

NotifyExportFailed(errMsg) == Call("export_failed", -1, Nil, errMsg)

\* The calls of one job's log with the given op, in order.
CallsOf(r, op) == SelectSeq(log[r], LAMBDA c : c.op = op)

-----------------------------------------------------------------------------
(* The notification hub: Hub.Run, Hub.Broadcast, HandleWebSocket and the   *)
(* two pumps of every connection                                           *)

\* make(chan *Message, 256) of NewHub, scaled down.
BroadcastCap == 2

\* make(chan *Message, 256) of HandleWebSocket, scaled down.
SendCap == 1

\* WebSocket connections accepted in one behaviour.
MaxConns == 2

\* Broadcast calls made in one behaviour.
MaxMessages == 3

\* Broadcast calls made in one behaviour where progress is checked.
MaxLiveMessages == 2

Conns == 1..MaxConns

\* &ws.Message{...} after Broadcast has set UserID; seq is the rank of the
\* Broadcast call that published it.  Type, Channel and Data, in which the
\* three NotifyExport* differ, are read by no code of the hub.
Message(userID, seq) == [UserID |-> userID, seq |-> seq]

\* A connection slot before HandleWebSocket has been called for it.
NoConnection ==
    [ userID     |-> 0,
      handler    |-> "none",     \* HandleWebSocket: none, register (blocked on h.register <- conn), done
      ws         |-> "none",     \* the server side of the socket: none, open, closed
      peer       |-> "none",     \* the client: none, connected, gone
      send       |-> <<>>,       \* conn.send, the outbound queue
      sendClosed |-> FALSE,      \* close(conn.send) has happened
      closes     |-> 0,          \* how many times close(conn.send) was executed
      closedBy   |-> "none",     \* the case of Run that closed it last: broadcast, unregister
      read       |-> "none",     \* readPump: none, reading, unregister (blocked on c.hub.unregister <- c), done
      write      |-> "none",     \* writePump: none, running, done
      wire       |-> <<>>,       \* the messages WriteJSON has written
      queued     |-> <<>> ]      \* every message Run has put on conn.send

\* NewHub and go wsHub.Run(ctx): an empty registry, empty queue, live context.
InitHub ==
    /\ hubPc = "running"
    /\ hubCtx = "active"
    /\ connections = <<>>
    /\ broadcast = <<>>
    /\ conns = [c \in Conns |-> NoConnection]
    /\ published = <<>>
    /\ notifyRet = "none"

\* The connections registered under userID (h.connections[userID], nil if absent).
ConnectionsOf(userID) ==
    IF userID \in DOMAIN connections THEN connections[userID] ELSE {}

Registered == UNION {connections[u] : u \in DOMAIN connections}

\* h.connections[conn.userID][conn] = true, creating the user's set if absent.
AddConnection(reg, userID, c) ==
    [u \in DOMAIN reg \cup {userID} |->
        IF u = userID
        THEN (IF u \in DOMAIN reg THEN reg[u] ELSE {}) \cup {c}
        ELSE reg[u]]

\* delete(connections, conn); if len(connections) == 0 { delete(h.connections, conn.userID) }
RemoveConnection(reg, userID, c) ==
    IF userID \in DOMAIN reg /\ c \in reg[userID]
    THEN IF reg[userID] = {c}
         THEN [u \in DOMAIN reg \ {userID} |-> reg[u]]
         ELSE [reg EXCEPT ![userID] = @ \ {c}]
    ELSE reg

\* select { case conn.send <- message: default: } can take its first case.
CanEnqueue(conn) == Len(conn.send) < SendCap

\* The message goes to every registered connection, whoever its user is.
ReceiversAnyUser(message) == {c \in Registered : CanEnqueue(conns[c])}

\* The connections of the target's set that take the message.
Receivers(message) == {c \in ConnectionsOf(message.UserID) : CanEnqueue(conns[c])}

\* HandleWebSocket starting both pumps before it sends on h.register.
HandleWebSocketPumpsFirst(c, userID) ==
    /\ conns[c].handler = "none"
    /\ \A b \in Conns : b < c => conns[b].handler # "none"
    /\ conns' = [conns EXCEPT ![c] = [NoConnection EXCEPT
                    !.userID = userID, !.handler = "register",
                    !.ws = "open", !.peer = "connected",
                    !.read = "reading", !.write = "running"]]
    /\ UNCHANGED <<hubPc, hubCtx, connections, broadcast, published, notifyRet>>

\* HandleWebSocket up to h.register <- conn, where it waits for Run.
HandleWebSocket(c, userID) ==
    /\ conns[c].handler = "none"
    /\ \A b \in Conns : b < c => conns[b].handler # "none"
    /\ conns' = [conns EXCEPT ![c] = [NoConnection EXCEPT
                    !.userID = userID, !.handler = "register",
                    !.ws = "open", !.peer = "connected"]]
    /\ UNCHANGED <<hubPc, hubCtx, connections, broadcast, published, notifyRet>>

\* case conn := <-h.register, and HandleWebSocket starting both pumps.
RunRegister(c) ==
    /\ hubPc = "running"
    /\ conns[c].handler = "register"
    /\ connections' = AddConnection(connections, conns[c].userID, c)
    /\ conns' = [conns EXCEPT ![c].handler = "done",
                              ![c].read = "reading", ![c].write = "running"]
    /\ UNCHANGED <<hubPc, hubCtx, broadcast, published, notifyRet>>

\* The unregister case without close(conn.send).
RunUnregisterLeaveOpen(c) ==
    /\ hubPc = "running"
    /\ conns[c].read = "unregister"
    /\ connections' = RemoveConnection(connections, conns[c].userID, c)
    /\ conns' = [conns EXCEPT ![c].read = "done", ![c].ws = "closed"]
    /\ UNCHANGED <<hubPc, hubCtx, broadcast, published, notifyRet>>

\* The unregister case closing the queue whether or not the connection is
\* still in its user's set.
RunUnregisterAlwaysClose(c) ==
    /\ hubPc = "running"
    /\ conns[c].read = "unregister"
    /\ connections' = RemoveConnection(connections, conns[c].userID, c)
    /\ conns' = [conns EXCEPT ![c].sendClosed = TRUE, ![c].closes = @ + 1,
                              ![c].closedBy = "unregister",
                              ![c].read = "done", ![c].ws = "closed"]
    /\ UNCHANGED <<hubPc, hubCtx, broadcast, published, notifyRet>>

\* case conn := <-h.unregister, and readPump's c.ws.Close() after its send.
RunUnregister(c) ==
    /\ hubPc = "running"
    /\ conns[c].read = "unregister"
    /\ connections' = RemoveConnection(connections, conns[c].userID, c)
    /\ conns' = [conns EXCEPT
                    ![c].sendClosed = @ \/ c \in ConnectionsOf(conns[c].userID),
                    ![c].closes = IF c \in ConnectionsOf(conns[c].userID) THEN @ + 1 ELSE @,
                    ![c].closedBy = IF c \in ConnectionsOf(conns[c].userID)
                                    THEN "unregister" ELSE @,
                    ![c].read = "done", ![c].ws = "closed"]
    /\ UNCHANGED <<hubPc, hubCtx, broadcast, published, notifyRet>>

\* The broadcast case retrying a saturated connection instead of dropping it.
DeliverKeepSaturated(message) ==
    /\ connections' = connections
    /\ conns' = [c \in Conns |->
                    IF c \in Receivers(message)
                    THEN [conns[c] EXCEPT !.send = Append(@, message),
                                          !.queued = Append(@, message)]
                    ELSE conns[c]]

\* The broadcast case creating the target's entry when it is absent.
DeliverCreatingEntry(message) ==
    /\ connections' = [u \in DOMAIN connections \cup {message.UserID} |->
                          IF u = message.UserID THEN Receivers(message)
                          ELSE connections[u]]
    /\ conns' = [c \in Conns |->
                    IF c \in Receivers(message)
                    THEN [conns[c] EXCEPT !.send = Append(@, message),
                                          !.queued = Append(@, message)]
                    ELSE IF c \in ConnectionsOf(message.UserID)
                         THEN [conns[c] EXCEPT !.sendClosed = TRUE, !.closes = @ + 1,
                                               !.closedBy = "broadcast"]
                         ELSE conns[c]]

\* The broadcast case closing a saturated queue and leaving its connection
\* in the user's set.
DeliverCloseKeepRegistered(message) ==
    /\ connections' = connections
    /\ conns' = [c \in Conns |->
                    IF c \in Receivers(message)
                    THEN [conns[c] EXCEPT !.send = Append(@, message),
                                          !.queued = Append(@, message)]
                    ELSE IF c \in ConnectionsOf(message.UserID)
                         THEN [conns[c] EXCEPT !.sendClosed = TRUE, !.closes = @ + 1,
                                               !.closedBy = "broadcast"]
                         ELSE conns[c]]

\* for conn := range connections { select { case conn.send <- message:
\* default: close(conn.send); delete(connections, conn) } }
Deliver(message) ==
    LET target == ConnectionsOf(message.UserID)
        taking == Receivers(message)
    IN  /\ connections' =
              IF message.UserID \in DOMAIN connections
              THEN [connections EXCEPT ![message.UserID] = taking]
              ELSE connections
        /\ conns' = [c \in Conns |->
                        IF c \in taking
                        THEN [conns[c] EXCEPT !.send = Append(@, message),
                                          !.queued = Append(@, message)]
                        ELSE IF c \in target
                             THEN [conns[c] EXCEPT !.sendClosed = TRUE, !.closes = @ + 1,
                                               !.closedBy = "broadcast"]
                             ELSE conns[c]]

\* case message := <-h.broadcast
RunBroadcast ==
    /\ hubPc = "running"
    /\ broadcast # <<>>
    /\ broadcast' = Tail(broadcast)
    /\ Deliver(Head(broadcast))
    /\ UNCHANGED <<hubPc, hubCtx, published, notifyRet>>

\* The shutdown case returning without closing any socket.
RunShutdownNoClose ==
    /\ hubPc = "running"
    /\ hubCtx = "cancelled"
    /\ hubPc' = "exited"
    /\ UNCHANGED <<hubCtx, connections, broadcast, conns, published, notifyRet>>

\* case <-ctx.Done(): close the socket of every registered connection, return.
RunShutdown ==
    /\ hubPc = "running"
    /\ hubCtx = "cancelled"
    /\ conns' = [c \in Conns |->
                    IF c \in Registered THEN [conns[c] EXCEPT !.ws = "closed"]
                    ELSE conns[c]]
    /\ hubPc' = "exited"
    /\ UNCHANGED <<hubCtx, connections, broadcast, published, notifyRet>>

\* cancel() of the top-level context.
Cancel ==
    /\ hubCtx = "active"
    /\ hubCtx' = "cancelled"
    /\ UNCHANGED <<hubPc, connections, broadcast, conns, published, notifyRet>>

\* Broadcast waiting for room in h.broadcast instead of dropping.
BroadcastEnqueueAlways(userID) ==
    LET message == Message(userID, Len(published) + 1)
    IN  /\ broadcast' = Append(broadcast, message)
        /\ published' = Append(published, [message |-> message, dropped |-> FALSE])

\* Broadcast putting the message at the head of h.broadcast.
BroadcastAtHead(userID) ==
    LET message == Message(userID, Len(published) + 1)
        full == Len(broadcast) >= BroadcastCap
    IN  /\ broadcast' = IF full THEN broadcast ELSE <<message>> \o broadcast
        /\ published' = Append(published, [message |-> message, dropped |-> full])

\* message.UserID = userID; select { case h.broadcast <- message: default: log }
Broadcast(userID) ==
    LET message == Message(userID, Len(published) + 1)
        full == Len(broadcast) >= BroadcastCap
    IN  /\ broadcast' = IF full THEN broadcast ELSE Append(broadcast, message)
        /\ published' = Append(published, [message |-> message, dropped |-> full])

\* NotifyExportProgress, NotifyExportComplete, NotifyExportFailed: build the
\* message, c.hub.Broadcast(userID, message), return nil.
NotifyExport(userID) ==
    /\ Len(published) < MaxMessages
    /\ Broadcast(userID)
    /\ notifyRet' = Nil
    /\ UNCHANGED <<hubPc, hubCtx, connections, conns>>

\* The client goes away (or stops answering pings).
PeerClose(c) ==
    /\ conns[c].peer = "connected"
    /\ conns' = [conns EXCEPT ![c].peer = "gone"]
    /\ UNCHANGED <<hubPc, hubCtx, connections, broadcast, published, notifyRet>>

\* readPump: ReadMessage fails, the deferred function starts its send on
\* h.unregister.
readPump(c) ==
    /\ conns[c].read = "reading"
    /\ conns[c].ws = "closed" \/ conns[c].peer = "gone"
    /\ conns' = [conns EXCEPT ![c].read = "unregister"]
    /\ UNCHANGED <<hubPc, hubCtx, connections, broadcast, published, notifyRet>>

\* writePump returning without its deferred c.ws.Close().
writePumpLeavesSocketOpen(c) ==
    /\ conns[c].write = "running"
    /\ \/ /\ conns[c].send # <<>>
          /\ \/ /\ conns[c].ws = "open"
                /\ conns' = [conns EXCEPT ![c].send = Tail(@),
                                          ![c].wire = Append(@, Head(conns[c].send))]
             \/ /\ conns[c].ws = "closed" \/ conns[c].peer = "gone"
                /\ conns' = [conns EXCEPT ![c].send = Tail(@), ![c].write = "done"]
       \/ /\ conns[c].send = <<>>
          /\ conns[c].sendClosed
          /\ conns' = [conns EXCEPT ![c].write = "done"]
       \/ /\ conns[c].ws = "closed" \/ conns[c].peer = "gone"
          /\ conns' = [conns EXCEPT ![c].write = "done"]
    /\ UNCHANGED <<hubPc, hubCtx, connections, broadcast, published, notifyRet>>

\* writePump without the !ok branch: a closed queue is not noticed.
writePumpIgnoresClose(c) ==
    /\ conns[c].write = "running"
    /\ \/ /\ conns[c].send # <<>>
          /\ \/ /\ conns[c].ws = "open"
                /\ conns' = [conns EXCEPT ![c].send = Tail(@),
                                          ![c].wire = Append(@, Head(conns[c].send))]
             \/ /\ conns[c].ws = "closed" \/ conns[c].peer = "gone"
                /\ conns' = [conns EXCEPT ![c].send = Tail(@),
                                          ![c].write = "done", ![c].ws = "closed"]
       \/ /\ conns[c].ws = "closed" \/ conns[c].peer = "gone"
          /\ conns' = [conns EXCEPT ![c].write = "done", ![c].ws = "closed"]
    /\ UNCHANGED <<hubPc, hubCtx, connections, broadcast, published, notifyRet>>

\* writePump: one turn of its select.
writePump(c) ==
    /\ conns[c].write = "running"
    /\ \/ \* case message, ok := <-c.send with ok: WriteJSON(message)
          /\ conns[c].send # <<>>
          /\ \/ /\ conns[c].ws = "open"
                /\ conns' = [conns EXCEPT ![c].send = Tail(@),
                                          ![c].wire = Append(@, Head(conns[c].send))]
             \/ /\ conns[c].ws = "closed" \/ conns[c].peer = "gone"
                /\ conns' = [conns EXCEPT ![c].send = Tail(@),
                                          ![c].write = "done", ![c].ws = "closed"]
       \/ \* !ok: the queue is closed and drained, write the close frame
          /\ conns[c].send = <<>>
          /\ conns[c].sendClosed
          /\ conns' = [conns EXCEPT ![c].write = "done", ![c].ws = "closed"]
       \/ \* case <-ticker.C: the ping fails
          /\ conns[c].ws = "closed" \/ conns[c].peer = "gone"
          /\ conns' = [conns EXCEPT ![c].write = "done", ![c].ws = "closed"]
    /\ UNCHANGED <<hubPc, hubCtx, connections, broadcast, published, notifyRet>>

-----------------------------------------------------------------------------
(* S3Client.UploadXLSX and S3Client.GetTemporaryURL: the retry loop *)

\* attempts := 3
attempts == 3

\* backoff := 500 * time.Millisecond (UploadXLSX)
uploadBackoff == 500

\* backoff := 300 * time.Millisecond (GetTemporaryURL)
signBackoff == 300

S3Ops == {"UploadXLSX", "GetTemporaryURL"}

\* len(data): the bytes of the artifact handed to UploadXLSX.
MaxBytes == 2

\* What the storage client answers to the successive attempts of one call:
\* TRUE for success.
Scripts == [1..attempts -> BOOLEAN]

\* No call in progress.
NoCall ==
    [ op      |-> "none",
      pc      |-> "idle",      \* idle, top (of the loop), inflight, backoff, done
      attempt |-> 0,           \* the loop variable
      made    |-> 0,           \* PutObject / PresignedGetObject calls started
      backoff |-> 0,           \* milliseconds
      waits   |-> <<>>,        \* the durations of the waits begun, in order
      size    |-> 0,           \* size := int64(len(data))
      offset  |-> 0,           \* the position of reader := bytes.NewReader(data)
      starts  |-> <<>>,        \* the position of reader when each attempt began
      script  |-> <<>>,
      ctx     |-> "active",    \* the caller's context: active, cancelled
      cancelAt |-> "none",     \* pc, at the moment the context was cancelled
      madeAtCancel |-> 0,      \* made, at that moment
      result  |-> "none" ]     \* none, ok, ctx.Err, failed after 3 attempts

InitRetry == s3call = NoCall

\* attempt < attempts: a failed attempt is followed by a wait and another one.
CanRetryOnce(attempt) == attempt < attempts - 1

CanRetry(attempt) == attempt < attempts

\* The call is entered with a context that may already be cancelled.
InitCall ==
    \E op \in S3Ops, script \in Scripts, ctx \in {"active", "cancelled"},
       size \in 1..MaxBytes :
        s3call = [NoCall EXCEPT
                    !.op = op, !.pc = "top", !.attempt = 1, !.script = script,
                    !.size = IF op = "UploadXLSX" THEN size ELSE 0,
                    !.ctx = ctx,
                    !.cancelAt = IF ctx = "cancelled" THEN "top" ELSE "none",
                    !.backoff = IF op = "UploadXLSX" THEN uploadBackoff ELSE signBackoff]

\* The top of the loop entering the storage call without looking at ctx.
AttemptNoCheck ==
    /\ s3call.pc = "top"
    /\ s3call' = [s3call EXCEPT !.pc = "inflight", !.made = @ + 1,
                                !.starts = Append(@, s3call.offset)]

\* if ctx.Err() != nil { return "", ctx.Err() }; c.raw.PutObject(ctx, ...)
Attempt ==
    /\ s3call.pc = "top"
    /\ IF s3call.ctx = "cancelled"
       THEN s3call' = [s3call EXCEPT !.pc = "done", !.result = "ctx.Err"]
       ELSE s3call' = [s3call EXCEPT !.pc = "inflight", !.made = @ + 1,
                                     !.starts = Append(@, s3call.offset)]

\* The positions the storage call can leave the reader at: it reads from
\* where the reader stands, all that is left when it succeeds, any part of
\* it when it fails.
ReadUpTo(ok) ==
    IF ok THEN {s3call.size} ELSE s3call.offset..s3call.size

\* The storage call returns: what the script says, or an error when the
\* context was cancelled under it.
AttemptReturns ==
    /\ s3call.pc = "inflight"
    /\ \E ok \in {s3call.script[s3call.attempt]} \cup
                 (IF s3call.ctx = "cancelled" THEN {FALSE} ELSE {}) :
       \E offset \in ReadUpTo(ok) :
          IF ok
          THEN s3call' = [s3call EXCEPT !.pc = "done", !.result = "ok",
                                        !.offset = offset]
          ELSE IF CanRetry(s3call.attempt)
               THEN s3call' = [s3call EXCEPT !.pc = "backoff", !.offset = offset,
                                             !.waits = Append(@, s3call.backoff)]
               ELSE s3call' = [s3call EXCEPT !.pc = "done", !.attempt = @ + 1,
                                             !.offset = offset,
                                             !.result = "failed after 3 attempts"]

\* The wait keeping the same duration for the next one.
BackoffConstant ==
    /\ s3call.pc = "backoff"
    /\ \/ /\ s3call.ctx = "cancelled"
          /\ s3call' = [s3call EXCEPT !.pc = "done", !.result = "ctx.Err"]
       \/ s3call' = [s3call EXCEPT !.pc = "top", !.attempt = @ + 1]

\* select { case <-ctx.Done(): return "", ctx.Err()
\*          case <-time.After(backoff): backoff *= 2; continue }
Backoff ==
    /\ s3call.pc = "backoff"
    /\ \/ /\ s3call.ctx = "cancelled"
          /\ s3call' = [s3call EXCEPT !.pc = "done", !.result = "ctx.Err"]
       \/ s3call' = [s3call EXCEPT !.pc = "top", !.attempt = @ + 1,
                                   !.backoff = @ * 2]

\* The caller's cancellation signal fires.
CancelCall ==
    /\ s3call.pc \in {"top", "inflight", "backoff"}
    /\ s3call.ctx = "active"
    /\ s3call' = [s3call EXCEPT !.ctx = "cancelled", !.cancelAt = s3call.pc,
                                !.madeAtCancel = s3call.made]

-----------------------------------------------------------------------------
(* StorageClient.Save and the public GET /files/{file} handler *)

\* Length of the file names given to Save.
MaxNameLen == 3

\* hex.EncodeToString of 8 random bytes has 16 digits; here, fewer.
HexLen == 2

\* A file name is a sequence of characters: a letter, the underscore, the
\* space, the path separator.
NameChars == {"a", "_", " ", "/"}

HexChars == {"0", "f"}

Names == UNION {[1..n -> NameChars] : n \in 0..MaxNameLen}

Uniques == [1..HexLen -> HexChars]

\* for len(path) > 0 && os.IsPathSeparator(path[len(path)-1]) { path = path[0 : len(path)-1] }
RECURSIVE StripSlashes(_)
StripSlashes(path) ==
    IF path # <<>> /\ path[Len(path)] = "/"
    THEN StripSlashes(SubSeq(path, 1, Len(path) - 1))
    ELSE path

\* The index of the last separator of path, 0 if it has none.
LastSlash(path) ==
    IF \E i \in DOMAIN path : path[i] = "/"
    THEN CHOOSE i \in DOMAIN path :
            path[i] = "/" /\ \A j \in DOMAIN path : j > i => path[j] # "/"
    ELSE 0

\* filepath.Base
Base(path) ==
    IF path = <<>> THEN <<".">>
    ELSE LET stripped == StripSlashes(path)
             last     == SubSeq(stripped, LastSlash(stripped) + 1, Len(stripped))
         IN  IF last = <<>> THEN <<"/">> ELSE last

\* final := fmt.Sprintf("%s_%s", unique, fileName)
FinalName(unique, fileName) == unique \o <<"_">> \o fileName

\* filepath.Join(s.BaseDir, final) cleans the path: the file is created
\* under final without a trailing separator.
StoredAs(final) == StripSlashes(final)

\* orig := file; if idx := strings.IndexByte(file, '_'); idx >= 0 { orig = file[idx+1:] }
AfterFirstUnderscore(file) ==
    IF \E i \in DOMAIN file : file[i] = "_"
    THEN LET idx == CHOOSE i \in DOMAIN file :
                        file[i] = "_" /\ \A j \in DOMAIN file : j < i => file[j] # "_"
         IN  SubSeq(file, idx + 1, Len(file))
    ELSE file

\* No file yet.
NoFile ==
    [ name        |-> <<>>,     \* the fileName argument of Save
      unique      |-> <<>>,     \* the hex digits rand.Read gives
      pc          |-> "idle",   \* idle, new, saved, failed, served
      final       |-> <<>>,     \* what Save returned
      stored      |-> Nil,      \* the name of the file in BaseDir
      code        |-> 0,        \* the status of GET /files/<final>
      disposition |-> Nil ]     \* the filename of its Content-Disposition

InitFile == fileReq = NoFile

\* Save is called with some name, and the random source gives some digits.
InitSave ==
    \E name \in Names, unique \in Uniques :
        fileReq = [NoFile EXCEPT !.name = name, !.unique = unique, !.pc = "new"]

\* StorageClient.Save: an error of rand.Read, WriteFile or Rename, or the
\* file written and its name returned.
SaveFile ==
    /\ fileReq.pc = "new"
    /\ \/ fileReq' = [fileReq EXCEPT !.pc = "failed"]
       \/ LET final == FinalName(fileReq.unique, Base(fileReq.name))
          IN  fileReq' = [fileReq EXCEPT !.pc = "saved", !.final = final,
                                         !.stored = StoredAs(final)]

\* GET <GetURL(final)>: the route /files/{file} takes one path segment;
\* os.Stat of the file; Content-Disposition with the name after the prefix.
ServeFile ==
    /\ fileReq.pc = "saved"
    /\ LET file == fileReq.final
       IN  IF (\E i \in DOMAIN file : file[i] = "/") \/ file # fileReq.stored
           THEN fileReq' = [fileReq EXCEPT !.pc = "served", !.code = 404]
           ELSE fileReq' = [fileReq EXCEPT !.pc = "served", !.code = 200,
                                           !.disposition = AfterFirstUnderscore(file)]

-----------------------------------------------------------------------------
(* State *)

\* A Submit call that has not been made yet.
NewJob ==
    [ pc       |-> "new",
      kind     |-> "none",
      owner    |-> 0,
      selected |-> <<>>,
      result   |-> Nil,
      status   |-> NewStatus(0, "none", <<>>, 0, 0),
      cols     |-> <<>>,
      total    |-> 0,
      rowsDone |-> 0 ]

InitJobs ==
    /\ jobs = [r \in Requests |-> NewJob]
    /\ primary = <<>>
    /\ legacy = <<>>
    /\ exportIds = {}
    /\ log = [r \in Requests |-> <<>>]
    /\ resp = [id |-> 0, caller |-> 0, code |-> 0, message |-> Nil, data |-> <<>>]
    /\ redisDown = {}
    /\ ttl = NoWrites

Init ==
    /\ InitJobs
    /\ pTotal = 0
    /\ pDone = 0
    /\ pProgress = 0
    /\ InitHub
    /\ InitRetry
    /\ InitFile

-----------------------------------------------------------------------------
(* Submit: the Start*Export entry points *)

\* The save functions writing with KEEPTTL: the expiry set by the first
\* write of a key is kept by the later ones.
SaveKeepTTL(r, st) ==
    LET written == (IF "set" \in redisDown THEN {} ELSE {<<"primary", r>>})
                   \cup (IF "set_legacy" \in redisDown THEN {} ELSE {<<"legacy", r>>})
    IN
    /\ primary' = IF "set" \in redisDown THEN primary ELSE (r :> st) @@ primary
    /\ exportIds' = IF {"set", "sadd"} \cap redisDown # {} THEN exportIds
                    ELSE exportIds \cup {r}
    /\ legacy' = IF "set_legacy" \in redisDown THEN legacy
                 ELSE (r :> phpSerializeExportItem(st)) @@ legacy
    /\ ttl' = [ttl EXCEPT
                 !.expireAt = [k \in DOMAIN @ \cup written |->
                                  IF k \in DOMAIN ttl.expireAt /\ ttl.expireAt[k] > ttl.now
                                  THEN ttl.expireAt[k] ELSE ttl.now + exportTTL],
                 !.wroteAt = [k \in DOMAIN @ \cup written |->
                                 IF k \in written THEN ttl.now ELSE ttl.wroteAt[k]]]

\* _ = s.saveExportStatus(ctx, st); _ = s.saveLaravelCache(ctx, st)
\* A command that fails leaves Redis as it is, and its error is dropped.
\* Each SET that succeeds gives its key exportTTL to live from now.
Save(r, st) ==
    /\ ttl' = LET written ==
                     (IF "set" \in redisDown THEN {} ELSE {<<"primary", r>>})
                     \cup (IF "set_legacy" \in redisDown THEN {} ELSE {<<"legacy", r>>})
              IN  [ttl EXCEPT
                     !.expireAt = [k \in DOMAIN @ \cup written |->
                                      IF k \in written THEN ttl.now + exportTTL
                                      ELSE ttl.expireAt[k]],
                     !.wroteAt = [k \in DOMAIN @ \cup written |->
                                     IF k \in written THEN ttl.now ELSE ttl.wroteAt[k]]]
    /\ primary' = IF "set" \in redisDown THEN primary ELSE (r :> st) @@ primary
    /\ exportIds' = IF {"set", "sadd"} \cap redisDown # {} THEN exportIds
                    ELSE exportIds \cup {r}
    /\ legacy' = IF "set_legacy" \in redisDown THEN legacy
                 ELSE (r :> phpSerializeExportItem(st)) @@ legacy

\* The calls are made one after the other: the next one is the first not made.
CanSubmit(r) ==
    /\ jobs[r].pc = "new"
    /\ \A q \in Requests : q < r => jobs[q].pc # "new"

\* Accept starting the task before the status is persisted.
AcceptGoFirst(r, kind, selected, userID, calls) ==
    LET status == NewStatus(r, kind, selected, userID, r)
    IN  /\ Save(r, status)
        /\ log' = [log EXCEPT ![r] = calls \o <<Call("go", 0, Nil, Nil)>> \o SaveCalls(status)]
        /\ jobs' = [jobs EXCEPT ![r] =
                      [ NewJob EXCEPT !.pc = "fetch", !.kind = kind, !.owner = userID,
                                      !.selected = selected, !.result = "accepted",
                                      !.status = status ]]

\* The tail of every Start*Export: allocate the ID and the status at progress
\* 0, persist it twice, start the task, return the ID.
Accept(r, kind, selected, userID, calls) ==
    LET status == NewStatus(r, kind, selected, userID, r)
    IN  /\ Save(r, status)
        /\ log' = [log EXCEPT ![r] = calls \o SaveCalls(status) \o <<Call("go", 0, Nil, Nil)>>]
        /\ jobs' = [jobs EXCEPT ![r] =
                      [ NewJob EXCEPT !.pc = "fetch", !.kind = kind, !.owner = userID,
                                      !.selected = selected, !.result = "accepted",
                                      !.status = NewStatus(r, kind, selected, userID, r) ]]

\* return "", err
Reject(r, kind, selected, userID, calls, err) ==
    /\ log' = [log EXCEPT ![r] = calls]
    /\ jobs' = [jobs EXCEPT ![r] =
                  [ NewJob EXCEPT !.pc = "rejected", !.kind = kind, !.owner = userID,
                                  !.selected = selected, !.result = err ]]
    /\ UNCHANGED <<primary, legacy, exportIds, ttl>>

WithDefaults(kind, selected) ==
    IF Len(selected) = 0 THEN DefaultFields(kind) ELSE selected

StartDebtsExport(r, selected, userID) ==
    /\ CanSubmit(r)
    /\ Accept(r, "debts", WithDefaults("debts", selected), userID, <<>>)
    /\ UNCHANGED <<resp, progressVars, hubVars, s3call, redisDown, fileReq>>

StartUsersExport(r, selected, userID) ==
    /\ CanSubmit(r)
    /\ Accept(r, "users", WithDefaults("users", selected), userID, <<>>)
    /\ UNCHANGED <<resp, progressVars, hubVars, s3call, redisDown, fileReq>>

\* StartActionsExport persisting the status before the pre-flight check.
StartActionsExportSaveFirst(r, selected, userID, count, dbOK) ==
    LET sel    == WithDefaults("actions", selected)
        status == NewStatus(r, "actions", sel, userID, r)
    IN  /\ CanSubmit(r)
        /\ IF ~dbOK
              THEN Reject(r, "actions", sel, userID,
                          <<Call("has_more_than", -1, Nil, "err")>>, "db error")
           ELSE IF HasMoreThan(count, maxActionsForExport)
              THEN /\ Save(r, status)
                   /\ log' = [log EXCEPT ![r] =
                                SaveCalls(status) \o <<Call("has_more_than", -1, Nil, "true")>>]
                   /\ jobs' = [jobs EXCEPT ![r] =
                                 [ NewJob EXCEPT !.pc = "rejected", !.kind = "actions",
                                                 !.owner = userID, !.selected = sel,
                                                 !.result = "too many rows" ]]
           ELSE Accept(r, "actions", sel, userID,
                       <<Call("has_more_than", -1, Nil, "false")>>)
        /\ UNCHANGED <<resp, progressVars, hubVars, s3call, redisDown, fileReq>>

\* count is what COUNT(*) gives for the filter; dbOK is whether the query ran.
StartActionsExport(r, selected, userID, count, dbOK) ==
    LET sel == WithDefaults("actions", selected)
    IN  /\ CanSubmit(r)
        /\ IF ~dbOK
              THEN Reject(r, "actions", sel, userID,
                          <<Call("has_more_than", -1, Nil, "err")>>, "db error")
           ELSE IF HasMoreThan(count, maxActionsForExport)
              THEN Reject(r, "actions", sel, userID,
                          <<Call("has_more_than", -1, Nil, "true")>>, "too many rows")
           ELSE Accept(r, "actions", sel, userID,
                       <<Call("has_more_than", -1, Nil, "false")>>)
        /\ UNCHANGED <<resp, progressVars, hubVars, s3call, redisDown, fileReq>>

StartPaymentsExport(r, selected, userID, count, dbOK) ==
    LET sel == WithDefaults("payments", selected)
    IN  /\ CanSubmit(r)
        /\ IF ~dbOK
              THEN Reject(r, "payments", sel, userID,
                          <<Call("has_more_than", -1, Nil, "err")>>, "db error")
           ELSE IF HasMoreThan(count, maxPaymentsForExport)
              THEN Reject(r, "payments", sel, userID,
                          <<Call("has_more_than", -1, Nil, "true")>>, "too many rows")
           ELSE Accept(r, "payments", sel, userID,
                       <<Call("has_more_than", -1, Nil, "false")>>)
        /\ UNCHANGED <<resp, progressVars, hubVars, s3call, redisDown, fileReq>>

-----------------------------------------------------------------------------
(* The execution task: run*Export *)

Append1(r, calls) == [log EXCEPT ![r] = log[r] \o calls]

\* Fetch recording the failure of repo.List in the status and publishing it.
FetchReportsFailure(r) ==
    /\ jobs[r].pc = "fetch"
    /\ \/ LET status == [jobs[r].status EXCEPT !.error = "list failed",
                                                !.progress = doneProgress]
          IN  /\ Save(r, status)
              /\ log' = Append1(r, <<Call("list", -1, Nil, "err")>> \o SaveCalls(status)
                                     \o <<NotifyExportFailed("list failed")>>)
              /\ jobs' = [jobs EXCEPT ![r].status = status, ![r].pc = "done"]
       \/ \E n \in RowCounts :
            LET cols == ResolveColumns(jobs[r].kind, jobs[r].selected)
            IN  /\ log' = Append1(r, <<Call("list", -1, Nil, "ok")>>)
                /\ jobs' = [jobs EXCEPT
                              ![r].cols = cols,
                              ![r].total = IF Len(cols) = 0 THEN 0 ELSE n,
                              ![r].rowsDone =
                                  IF Len(cols) # 0 /\ ~HasCheckpoints(jobs[r].kind)
                                  THEN n ELSE 0,
                              ![r].pc =
                                  IF Len(cols) = 0 THEN "done"
                                  ELSE IF HasCheckpoints(jobs[r].kind) /\ n > 0
                                       THEN "render"
                                       ELSE "upload_prepare"]
          /\ UNCHANGED <<primary, legacy, exportIds, ttl>>
    /\ UNCHANGED <<resp, progressVars, hubVars, s3call, redisDown, fileReq>>

\* repo.List, then the lookup of the selected keys in the registry and the
\* header row.  A failed fetch and an empty column set both end the task.
\* actions: the rows are rendered here, with no checkpoint.
Fetch(r) ==
    /\ jobs[r].pc = "fetch"
    /\ \/ /\ log' = Append1(r, <<Call("list", -1, Nil, "err")>>)
          /\ jobs' = [jobs EXCEPT ![r].pc = "done"]
       \/ \E n \in RowCounts :
            LET cols == ResolveColumns(jobs[r].kind, jobs[r].selected)
            IN  /\ log' = Append1(r, <<Call("list", -1, Nil, "ok")>>)
                /\ jobs' = [jobs EXCEPT
                              ![r].cols = cols,
                              ![r].total = IF Len(cols) = 0 THEN 0 ELSE n,
                              ![r].rowsDone =
                                  IF Len(cols) # 0 /\ ~HasCheckpoints(jobs[r].kind)
                                  THEN n ELSE 0,
                              ![r].pc =
                                  IF Len(cols) = 0 THEN "done"
                                  ELSE IF HasCheckpoints(jobs[r].kind) /\ n > 0
                                       THEN "render"
                                       ELSE "upload_prepare"]
    /\ UNCHANGED <<primary, legacy, exportIds, ttl, resp, progressVars, hubVars, s3call, redisDown, fileReq>>

\* A checkpoint publishing its event before it writes the status.
CheckpointEventFirst(r) ==
    /\ jobs[r].pc = "render"
    /\ LET n        == NextCheckpoint(jobs[r].rowsDone, jobs[r].total)
           progress == CheckpointProgress(n, jobs[r].total)
           status   == [jobs[r].status EXCEPT !.progress = progress]
       IN  /\ Save(r, status)
           /\ log' = Append1(r, <<NotifyExportProgress(progress, "generating")>>
                                  \o SaveCalls(status))
           /\ jobs' = [jobs EXCEPT
                         ![r].status = status,
                         ![r].rowsDone = n,
                         ![r].pc = IF n = jobs[r].total THEN "upload_prepare" ELSE "render"]
    /\ UNCHANGED <<resp, progressVars, hubVars, s3call, redisDown, fileReq>>

\* A checkpoint returning from the task when a save fails.
CheckpointAbortOnError(r) ==
    /\ jobs[r].pc = "render"
    /\ LET n        == NextCheckpoint(jobs[r].rowsDone, jobs[r].total)
           progress == CheckpointProgress(n, jobs[r].total)
           status   == [jobs[r].status EXCEPT !.progress = progress]
       IN  /\ Save(r, status)
           /\ log' = Append1(r, SaveCalls(status)
                                  \o (IF redisDown # {} THEN <<>>
                                      ELSE <<NotifyExportProgress(progress, "generating")>>))
           /\ jobs' = [jobs EXCEPT
                         ![r].status = status,
                         ![r].rowsDone = n,
                         ![r].pc = IF redisDown # {} THEN "done"
                                   ELSE IF n = jobs[r].total THEN "upload_prepare"
                                   ELSE "render"]
    /\ UNCHANGED <<resp, progressVars, hubVars, s3call, redisDown, fileReq>>

\* The row loop of debts, users and payments up to and including its next
\* checkpoint: status.Progress = progress, both saves, the "generating" event.
Checkpoint(r) ==
    /\ jobs[r].pc = "render"
    /\ LET n        == NextCheckpoint(jobs[r].rowsDone, jobs[r].total)
           progress == CheckpointProgress(n, jobs[r].total)
           status   == [jobs[r].status EXCEPT !.progress = progress]
       IN  /\ Save(r, status)
           /\ log' = Append1(r, SaveCalls(status)
                                  \o <<NotifyExportProgress(progress, "generating")>>)
           /\ jobs' = [jobs EXCEPT
                         ![r].status = status,
                         ![r].rowsDone = n,
                         ![r].pc = IF n = jobs[r].total THEN "upload_prepare" ELSE "render"]
    /\ UNCHANGED <<resp, progressVars, hubVars, s3call, redisDown, fileReq>>

\* PrepareUpload going to the storage with nothing written or published.
PrepareUploadSilent(r) ==
    /\ jobs[r].pc = "upload_prepare"
    /\ \/ /\ jobs' = [jobs EXCEPT ![r].pc = "done"]
          /\ log' = Append1(r, <<Call("write_to_buffer", -1, Nil, "err")>>)
       \/ /\ jobs' = [jobs EXCEPT ![r].pc = "upload"]
          /\ log' = log
    /\ UNCHANGED <<primary, legacy, exportIds, ttl>>
    /\ UNCHANGED <<resp, progressVars, hubVars, s3call, redisDown, fileReq>>

\* f.WriteToBuffer(); on an error the task returns.  Otherwise
\* status.Progress = 95, both saves, the "uploading" event.
PrepareUpload(r) ==
    /\ jobs[r].pc = "upload_prepare"
    /\ \/ /\ jobs' = [jobs EXCEPT ![r].pc = "done"]
          /\ log' = Append1(r, <<Call("write_to_buffer", -1, Nil, "err")>>)
          /\ UNCHANGED <<primary, legacy, exportIds, ttl>>
       \/ LET status == [jobs[r].status EXCEPT !.progress = uploadProgress]
          IN  /\ Save(r, status)
              /\ log' = Append1(r, SaveCalls(status)
                                     \o <<NotifyExportProgress(uploadProgress, "uploading")>>)
              /\ jobs' = [jobs EXCEPT ![r].status = status, ![r].pc = "upload"]
    /\ UNCHANGED <<resp, progressVars, hubVars, s3call, redisDown, fileReq>>

\* FinishSuccess publishing the complete event before the status is persisted.
FinishSuccessCompleteFirst(r, calls) ==
    LET url    == FileURL(jobs[r].kind)
        status == [jobs[r].status EXCEPT !.file_url = url, !.progress = doneProgress]
    IN  /\ Save(r, status)
        /\ log' = Append1(r, calls
                               \o << NotifyExportComplete(url, FileName(jobs[r].kind)) >>
                               \o SaveCalls(status)
                               \o << NotifyExportProgress(doneProgress, "ready") >>)
        /\ jobs' = [jobs EXCEPT ![r].status = status, ![r].pc = "done"]

\* status.FileURL = &url; status.Progress = 100; both saves; the "ready"
\* progress event, then the complete event.
FinishSuccess(r, calls) ==
    LET url    == FileURL(jobs[r].kind)
        status == [jobs[r].status EXCEPT !.file_url = url, !.progress = doneProgress]
    IN  /\ Save(r, status)
        /\ log' = Append1(r, calls \o SaveCalls(status)
                               \o << NotifyExportProgress(doneProgress, "ready"),
                                     NotifyExportComplete(url, FileName(jobs[r].kind)) >>)
        /\ jobs' = [jobs EXCEPT ![r].status = status, ![r].pc = "done"]

\* A failed save after which the task goes on to the URL of the file.
FinishFailureThenSign(r, calls) ==
    LET status == [jobs[r].status EXCEPT !.error = SaveFailed, !.progress = doneProgress]
    IN  /\ Save(r, status)
        /\ log' = Append1(r, calls \o SaveCalls(status) \o <<NotifyExportFailed(SaveFailed)>>)
        /\ jobs' = [jobs EXCEPT ![r].status = status, ![r].pc = "sign"]

\* payments only: status.Error = &errStr; status.Progress = 100; both saves;
\* the failed event.
FinishFailure(r, calls) ==
    LET status == [jobs[r].status EXCEPT !.error = SaveFailed, !.progress = doneProgress]
    IN  /\ Save(r, status)
        /\ log' = Append1(r, calls \o SaveCalls(status) \o <<NotifyExportFailed(SaveFailed)>>)
        /\ jobs' = [jobs EXCEPT ![r].status = status, ![r].pc = "done"]

\* if err == nil { ... }  with no else: the task ends and nothing is written.
StopSilently(r, calls) ==
    /\ log' = Append1(r, calls)
    /\ jobs' = [jobs EXCEPT ![r].pc = "done"]
    /\ UNCHANGED <<primary, legacy, exportIds, ttl>>

\* The failed upload of a task.
UploadFailed(r, calls) ==
    IF ReportsUploadFailure(jobs[r].kind)
    THEN FinishFailure(r, calls)
    ELSE StopSilently(r, calls)

\* s3.UploadXLSX (debts, users, actions) or s3.Save (payments), whatever its
\* retries ended in, and what the task does with the result.
Upload(r) ==
    /\ jobs[r].pc = "upload"
    /\ \/ UploadFailed(r, <<Call("upload", -1, Nil, "err")>>)
       \/ /\ UsesS3(jobs[r].kind)
          /\ log' = Append1(r, <<Call("upload", -1, Nil, "ok")>>)
          /\ jobs' = [jobs EXCEPT ![r].pc = "sign"]
          /\ UNCHANGED <<primary, legacy, exportIds, ttl>>
       \/ /\ ~UsesS3(jobs[r].kind)
          /\ FinishSuccess(r, <<Call("upload", -1, Nil, "ok")>>)
    /\ UNCHANGED <<resp, progressVars, hubVars, s3call, redisDown, fileReq>>

\* s3.GetTemporaryURL after a successful UploadXLSX.
Sign(r) ==
    /\ jobs[r].pc = "sign"
    /\ \/ StopSilently(r, <<Call("sign", -1, Nil, "err")>>)
       \/ FinishSuccess(r, <<Call("sign", -1, Nil, "ok")>>)
    /\ UNCHANGED <<resp, progressVars, hubVars, s3call, redisDown, fileReq>>

-----------------------------------------------------------------------------
(* Reading a job: GET /exports/{export_id} *)

NotFound == [err |-> "export not found", export |-> <<>>]

\* humanizeRuAgo(status.Created): the age in words, not the time.
humanizeRuAgo(created) == <<"ago", created>>

\* GetExport without the comparison of the stored owner with the caller.
GetExportNoOwnerCheck(store, exportID, userID) ==
    IF exportID \notin DOMAIN store
    THEN NotFound
    ELSE LET status == store[exportID]
         IN  [ err    |-> Nil,
               export |-> << [ key        |-> status.key,
                               type       |-> status.type,
                               user_id    |-> status.user_id,
                               progress   |-> status.progress,
                               file_url   |-> status.file_url,
                               filters    |-> status.filters,
                               created_at |-> humanizeRuAgo(status.created_at) ] >> ]

\* ExportService.GetExport on the given content of Redis.
GetExport(store, exportID, userID) ==
    IF exportID \notin DOMAIN store
    THEN NotFound
    ELSE LET status == store[exportID]
         IN  IF status.user_id # userID
             THEN NotFound
             ELSE [ err    |-> Nil,
                    export |-> << [ key        |-> status.key,
                                    type       |-> status.type,
                                    user_id    |-> status.user_id,
                                    progress   |-> status.progress,
                                    file_url   |-> status.file_url,
                                    filters    |-> status.filters,
                                    created_at |-> humanizeRuAgo(status.created_at) ] >> ]

\* Handler.getExport: every error of the service is answered 404.
getExport(store, exportID, userID) ==
    LET res == GetExport(store, exportID, userID)
    IN  IF res.err # Nil
        THEN [ id |-> exportID, caller |-> userID,
               code |-> 404, message |-> "export not found", data |-> <<>> ]
        ELSE [ id |-> exportID, caller |-> userID,
               code |-> 200, message |-> "", data |-> res.export ]

\* IDs a client may ask for: every ID a Submit call can allocate, and one
\* that none does.
ExportIDs == Requests \cup {0}

GetExportRequest(exportID, userID) ==
    /\ resp' = getExport(primary, exportID, userID)
    /\ UNCHANGED <<jobVars, progressVars, hubVars, s3call, redisDown, fileReq>>

-----------------------------------------------------------------------------
(* Listing a user's jobs: GET /exports *)

\* IDs in Redis when the list is asked for.
MaxListed == 3

\* Distinct creation times of the stored jobs.
MaxCreated == 2

ListIDs == 1..MaxListed

\* A value json.Unmarshal rejects.
Garbage == [raw |-> "not json"]

\* What Redis may hold under an export key.
StoredValues(id) ==
    {Garbage} \cup
    {NewStatus(id, "debts", DefaultFields("debts"), userID, now) :
        userID \in Users, now \in 1..MaxCreated}

Stores ==
    UNION { {store \in [ids -> UNION {StoredValues(id) : id \in ids}] :
                \A id \in ids : store[id] \in StoredValues(id)} :
            ids \in SUBSET ListIDs }

\* The loop of GetExports keeping every status it could parse.
MatchingAnyOwner(store, index, userID) ==
    {id \in index : id \in DOMAIN store /\ store[id] # Garbage}

\* The loop of GetExports: a key that Get does not find or Unmarshal rejects
\* is skipped, a status of another user is left out.
Matching(store, index, userID) ==
    {id \in index : /\ id \in DOMAIN store
                    /\ store[id] # Garbage
                    /\ store[id].user_id = userID}

\* sort.Slice with less(i, j) = statuses[i].Created.After(statuses[j].Created):
\* every arrangement in which no element is before one that is After it.
SortedByCreated(store, ids) ==
    {order \in [1..Cardinality(ids) -> ids] :
        /\ \A i, j \in DOMAIN order : i # j => order[i] # order[j]
        /\ \A i, j \in DOMAIN order :
              i < j => ~(store[order[j]].created_at > store[order[i]].created_at)}

\* ExportService.GetExports on the given content of Redis: the results
\* sort.Slice can give.
GetExports(store, index, userID) ==
    { [i \in DOMAIN order |->
          LET status == store[order[i]]
          IN  [ key        |-> status.key,
                type       |-> status.type,
                user_id    |-> status.user_id,
                progress   |-> status.progress,
                file_url   |-> status.file_url,
                filters    |-> status.filters,
                created_at |-> humanizeRuAgo(status.created_at) ]] :
      order \in SortedByCreated(store, Matching(store, index, userID)) }

\* Handler.listExports
listExports(userID) ==
    /\ \E exports \in GetExports(primary, exportIds, userID) :
          resp' = [ id |-> 0, caller |-> userID, code |-> 200, message |-> "",
                    data |-> exports ]
    /\ UNCHANGED <<jobVars, progressVars, hubVars, s3call, redisDown, fileReq>>

\* Redis holds some keys and some index when the list is asked for.
InitList ==
    /\ jobs = [r \in Requests |-> NewJob]
    /\ primary \in Stores
    /\ legacy = <<>>
    /\ exportIds \in SUBSET ListIDs
    /\ log = [r \in Requests |-> <<>>]
    /\ resp = [id |-> 0, caller |-> 0, code |-> 0, message |-> Nil, data |-> <<>>]
    /\ redisDown = {}
    /\ ttl = NoWrites
    /\ pTotal = 0
    /\ pDone = 0
    /\ pProgress = 0
    /\ InitHub
    /\ InitRetry
    /\ InitFile

-----------------------------------------------------------------------------
(* The checkpoint arithmetic on its own *)

InitProgress ==
    /\ InitJobs
    /\ pTotal \in 1..MaxTotal
    /\ pDone = 0
    /\ pProgress = 0
    /\ InitHub
    /\ InitRetry
    /\ InitFile

\* One more checkpoint of the row loop over pTotal rows.
ProgressStep ==
    /\ pDone < pTotal
    /\ pDone' = NextCheckpoint(pDone, pTotal)
    /\ pProgress' = CheckpointProgress(pDone', pTotal)
    /\ UNCHANGED <<pTotal, jobVars, resp, hubVars, s3call, redisDown, fileReq>>

-----------------------------------------------------------------------------
(* Specifications *)

Submit ==
    \E r \in Requests, userID \in Users :
        \/ \E selected \in Selections("debts") : StartDebtsExport(r, selected, userID)
        \/ \E selected \in Selections("users") : StartUsersExport(r, selected, userID)
        \/ \E selected \in Selections("actions"), count \in PreflightCounts, dbOK \in BOOLEAN :
              StartActionsExport(r, selected, userID, count, dbOK)
        \/ \E selected \in Selections("payments"), count \in PreflightCounts, dbOK \in BOOLEAN :
              StartPaymentsExport(r, selected, userID, count, dbOK)

Task ==
    \E r \in Requests :
        Fetch(r) \/ Checkpoint(r) \/ PrepareUpload(r) \/ Upload(r) \/ Sign(r)

Read ==
    \E exportID \in ExportIDs, userID \in Users : GetExportRequest(exportID, userID)

Next == Submit \/ Task

\* The job engine.
Spec == Init /\ [][Next]_vars

\* The job engine and its readers.
SpecRead == Init /\ [][Next \/ Read]_vars

\* The checkpoint arithmetic for every row count up to MaxTotal.
SpecProgress == InitProgress /\ [][ProgressStep]_vars

\* Redis commands start and stop failing.
Outage ==
    /\ \E down \in SUBSET RedisOps : down # redisDown /\ redisDown' = down
    /\ UNCHANGED <<jobVars, resp, progressVars, hubVars, s3call, fileReq>>

\* Time passes: Redis drops the keys whose time to live is over.  The set
\* export_ids has no time to live.
Tick ==
    /\ ttl.now + TickMinutes <= MaxClock
    /\ ttl' = [ttl EXCEPT !.now = @ + TickMinutes]
    /\ primary' = [id \in {k \in DOMAIN primary :
                              ttl.expireAt[<<"primary", k>>] > ttl.now + TickMinutes}
                      |-> primary[id]]
    /\ legacy' = [id \in {k \in DOMAIN legacy :
                             ttl.expireAt[<<"legacy", k>>] > ttl.now + TickMinutes}
                     |-> legacy[id]]
    /\ UNCHANGED <<jobs, exportIds, log, resp, progressVars, hubVars, s3call,
                   redisDown, fileReq>>

\* The job engine while time passes.
SpecExpiry == Init /\ [][Next \/ Tick]_vars

\* The job engine on a Redis whose commands may fail.
SpecFlaky == Init /\ [][Next \/ Outage]_vars

List == \E userID \in Users : listExports(userID)

\* The list of a user's jobs, for every content of Redis up to MaxListed keys.
SpecList == InitList /\ [][List]_vars

notHub == <<jobVars, resp, progressVars, s3call, redisDown, fileReq>>

\* The publishers: the NotifyExport* calls of the job tasks.
Publish ==
    \E userID \in Users : NotifyExport(userID) /\ UNCHANGED notHub

\* The clients: connecting and going away.
Clients ==
    \E c \in Conns :
        \/ \E userID \in Users : HandleWebSocket(c, userID) /\ UNCHANGED notHub
        \/ PeerClose(c) /\ UNCHANGED notHub

\* The pumps of the connections.
Pumps ==
    \E c \in Conns :
        \/ readPump(c) /\ UNCHANGED notHub
        \/ writePump(c) /\ UNCHANGED notHub

\* Hub.Run: one turn of its select.
Run ==
    \/ RunShutdown /\ UNCHANGED notHub
    \/ \E c \in Conns : RunRegister(c) /\ UNCHANGED notHub
    \/ \E c \in Conns : RunUnregister(c) /\ UNCHANGED notHub
    \/ RunBroadcast /\ UNCHANGED notHub

Shutdown == Cancel /\ UNCHANGED notHub

NextHub == Publish \/ Clients \/ Pumps \/ Run \/ Shutdown

\* The hub, its publishers and its connections.
SpecHub == Init /\ [][NextHub]_vars

\* The scheduler does not starve a goroutine that can take a step: Run
\* keeps taking turns of its select while a case is ready, and the pumps
\* keep running.
FairHub == WF_vars(Run) /\ WF_vars(Pumps)

\* The publishers, making fewer calls.
PublishLive ==
    \E userID \in Users :
        Len(published) < MaxLiveMessages /\ NotifyExport(userID) /\ UNCHANGED notHub

NextHubLive == PublishLive \/ Clients \/ Pumps \/ Run \/ Shutdown

\* The hub under that scheduler.
SpecHubLive == Init /\ [][NextHubLive]_vars /\ FairHub

notRetry == <<jobVars, resp, progressVars, hubVars, redisDown, fileReq>>

InitRetryCall ==
    /\ InitJobs
    /\ pTotal = 0
    /\ pDone = 0
    /\ pProgress = 0
    /\ InitHub
    /\ InitCall
    /\ InitFile

NextRetry ==
    \/ Attempt /\ UNCHANGED notRetry
    \/ AttemptReturns /\ UNCHANGED notRetry
    \/ Backoff /\ UNCHANGED notRetry
    \/ CancelCall /\ UNCHANGED notRetry

\* One call of UploadXLSX or GetTemporaryURL, for every behaviour of the
\* storage client over three attempts and every moment of cancellation.
SpecRetry == InitRetryCall /\ [][NextRetry]_vars

notFile == <<jobVars, resp, progressVars, hubVars, s3call, redisDown>>

InitFileCall ==
    /\ InitJobs
    /\ pTotal = 0
    /\ pDone = 0
    /\ pProgress = 0
    /\ InitHub
    /\ InitRetry
    /\ InitSave

NextFile ==
    \/ SaveFile /\ UNCHANGED notFile
    \/ ServeFile /\ UNCHANGED notFile

\* One file saved and then requested, for every name up to MaxNameLen.
SpecFile == InitFileCall /\ [][NextFile]_vars

-----------------------------------------------------------------------------
(* Properties *)

\* Whether log[r] holds a call with this op and this text.
Called(r, op, text) == \E i \in DOMAIN log[r] : log[r][i].op = op /\ log[r][i].text = text

Finished(r) == jobs[r].pc = "done"

Terminal(st) ==
    /\ st.progress = doneProgress
    /\ st.file_url # Nil \/ st.error # Nil

\* The ops a task makes, as opposed to the Submit call that started it.
TaskOps == {"list", "write_to_buffer", "upload", "sign",
            "export_progress", "export_complete", "export_failed"}

\* C1: the progress values written to a job's cache key, in the order of the
\* writes, never go down.
C1_ProgressWritesNonDecreasing ==
    \A r \in Requests :
        LET w == CallsOf(r, "set")
        IN  \A i \in 1..(Len(w) - 1) : w[i].progress <= w[i + 1].progress

\* C2: a status has progress 100 exactly when its artifact URL or its error
\* message is set: in Redis, in the task's own copy, and in every single
\* write of the status a job has made.
C2_HundredIffTerminal ==
    /\ \A id \in DOMAIN primary :
          (primary[id].progress = doneProgress)
              <=> (primary[id].file_url # Nil \/ primary[id].error # Nil)
    /\ \A r \in Requests :
          /\ (jobs[r].status.progress = doneProgress)
                <=> (jobs[r].status.file_url # Nil \/ jobs[r].status.error # Nil)
          /\ \A i \in DOMAIN log[r] :
                log[r][i].op = "set" =>
                    ((log[r][i].progress = doneProgress)
                        <=> (log[r][i].url # Nil \/ log[r][i].text # Nil))

\* C2's case: a job whose cached status is at 100 after checkpoints were
\* written for it.
C2_Witness ==
    \E r \in Requests :
        /\ r \in DOMAIN primary
        /\ primary[r].progress = doneProgress
        /\ Called(r, "export_progress", "generating")

\* p is x = num/den rounded to the nearest integer, halves away from zero.
Nearest(p, num, den) ==
    /\ (2 * p - 1) * den <= 2 * num
    /\ 2 * num < (2 * p + 1) * den

\* C3: the progress a row-chunk checkpoint reports is below 100: it is
\* rowsDone/total*100 rounded when that is below 100, and 95 otherwise.
C3_CheckpointBelowHundred ==
    pDone > 0 =>
        /\ pProgress < doneProgress
        /\ IF \E p \in 0..(doneProgress - 1) : Nearest(p, pDone * 100, pTotal)
           THEN Nearest(pProgress, pDone * 100, pTotal)
           ELSE pProgress = uploadProgress

\* C3's case: the checkpoint on the final row of more than one chunk, whose
\* raw value is 100.
C3_Witness ==
    /\ pDone = pTotal
    /\ pTotal > chunkSize
    /\ pProgress = uploadProgress

\* C4: a finished task that fetched 0 rows, resolved a column and called the
\* storage has left the job in a terminal state.
C4_ZeroRowsReachTerminal ==
    \A r \in Requests :
        ( /\ Finished(r)
          /\ Len(jobs[r].cols) > 0
          /\ jobs[r].total = 0
          /\ CallsOf(r, "upload") # <<>> )
        => (r \in DOMAIN primary /\ Terminal(primary[r]))

\* Redis without the key of one job.
Without(store, id) == [k \in DOMAIN store \ {id} |-> store[k]]

\* C5: for a status owned by another user, the service and the handler answer
\* what they answer when the key is absent, and the answer holds no field of
\* the status.
C5_ForeignSameAsMissing ==
    /\ \A id \in DOMAIN primary, caller \in Users :
          primary[id].user_id # caller =>
              /\ GetExport(primary, id, caller) = GetExport(Without(primary, id), id, caller)
              /\ getExport(primary, id, caller) = getExport(Without(primary, id), id, caller)
              /\ getExport(primary, id, caller).data = <<>>
    /\ (resp.id \in Requests /\ jobs[resp.id].owner # resp.caller)
          => (resp.code = 404 /\ resp.data = <<>>)

\* C5's case: a request for a job that is in Redis and belongs to another
\* user has been answered.
C5_Witness ==
    /\ resp.id \in DOMAIN primary
    /\ primary[resp.id].user_id # resp.caller
    /\ resp.code = 404

\* The calls by which a job exists: a status write, an index entry, a started
\* task, an event.
JobOps == {"set", "sadd", "set_legacy", "go",
           "export_progress", "export_complete", "export_failed"}

\* C6: the Submit call whose pre-flight count reports too many rows returns
\* an error and writes nothing, indexes nothing, starts no task and publishes
\* nothing.
C6_TooManyCreatesNoJob ==
    [][ \A r \in Requests :
          (jobs[r].pc = "new" /\ Called(r, "has_more_than", "true")')
          => /\ jobs'[r].pc = "rejected"
             /\ jobs'[r].result = "too many rows"
             /\ primary' = primary
             /\ legacy' = legacy
             /\ exportIds' = exportIds
             /\ \A i \in DOMAIN log'[r] : log'[r][i].op \notin JobOps
      ]_vars

\* C6's case: a Submit call was refused for too many rows.
C6_Witness ==
    \E r \in Requests :
        /\ jobs[r].result = "too many rows"
        /\ jobs[r].kind \in {"actions", "payments"}

\* C7: a Submit call none of whose selected keys resolves has returned an
\* error and created no job.
C7_NoValidFieldsRejected ==
    \A r \in Requests :
        (jobs[r].pc # "new" /\ ResolveColumns(jobs[r].kind, jobs[r].selected) = <<>>)
        => /\ jobs[r].result # "accepted"
           /\ r \notin DOMAIN primary
           /\ CallsOf(r, "go") = <<>>

\* C8: the task is started once, after the status at progress 0 with no URL
\* was written under both representations; the ID is returned with the start
\* of the task, whatever the task has done; every call of the task, its
\* cache writes included, comes after the start.
C8_InitialWriteBeforeTask ==
    \A r \in Requests :
        LET L == log[r]
        IN  /\ Len(CallsOf(r, "go")) <= 1
            /\ (CallsOf(r, "go") # <<>>) <=> (jobs[r].result = "accepted")
            /\ \A g \in DOMAIN L :
                  L[g].op = "go" =>
                      /\ \E a, b \in 1..(g - 1) :
                            /\ L[a] = Call("set", 0, Nil, Nil)
                            /\ L[b] = Call("set_legacy", 0, "N;", Nil)
                      /\ \A a \in 1..(g - 1) : L[a].op \notin TaskOps
            /\ \A i \in DOMAIN L :
                  (L[i].op \in TaskOps \/ (L[i].op = "set" /\ L[i].progress # 0))
                      => \E g \in 1..(i - 1) : L[g].op = "go"

\* C8's case: the ID has been returned and the task has not fetched yet.
C8_Witness ==
    \E r \in Requests :
        /\ jobs[r].result = "accepted"
        /\ jobs[r].pc = "fetch"
        /\ CallsOf(r, "list") = <<>>
        /\ r \in DOMAIN primary /\ r \in DOMAIN legacy

\* C9: a finished task whose storage upload failed has persisted the error
\* message with progress 100 and published the failed event with that text.
C9_UploadFailureIsTerminal ==
    \A r \in Requests :
        (Finished(r) /\ Called(r, "upload", "err"))
        => /\ primary[r].error # Nil
           /\ primary[r].progress = doneProgress
           /\ Called(r, "export_failed", primary[r].error)

\* The success sequence in log[r] ending in the complete event at i: the
\* status write with the URL and 100, then the progress event 100, then the
\* complete event with that URL and the file name.
SuccessSequenceAt(r, i) ==
    LET L == log[r]
    IN  /\ L[i].op = "export_complete"
        /\ L[i].url # Nil
        /\ L[i].text = FileName(jobs[r].kind)
        /\ \E a, b \in 1..(i - 1) :
              /\ a < b
              /\ L[a] = Call("set", doneProgress, L[i].url, Nil)
              /\ L[b] = NotifyExportProgress(doneProgress, "ready")

\* The storage gave the task a URL: the upload succeeded and, where the URL
\* is signed afterwards, so did the signing.
GotURL(r) ==
    /\ Called(r, "upload", "ok")
    /\ UsesS3(jobs[r].kind) => Called(r, "sign", "ok")

-----------------------------------------------------------------------------
(* Properties of the hub *)

\* The step is Run's broadcast case: nothing else takes from h.broadcast.
IsRunBroadcast == broadcast # <<>> /\ broadcast' = Tail(broadcast)

Saturated(c) == Len(conns[c].send) >= SendCap

\* Everything Run has put on the queue of connection c, oldest first.
Delivered(c) == conns[c].queued

Holds(c, message) == \E i \in DOMAIN Delivered(c) : Delivered(c)[i] = message

\* C11: when Run handles a broadcast and a connection of the target user
\* has a full outbound queue, the same step closes that queue and removes the
\* connection from the registry, the message is neither enqueued on it nor
\* kept for a retry, and the step is never disabled by a full queue.
C11_SaturatedConnectionDropped ==
    /\ [](hubPc = "running" /\ broadcast # <<>> => ENABLED RunBroadcast)
    /\ [][IsRunBroadcast =>
            \A c \in ConnectionsOf(Head(broadcast).UserID) :
                Saturated(c) =>
                    /\ conns'[c].sendClosed
                    /\ c \notin UNION {connections'[u] : u \in DOMAIN connections'}
                    /\ conns'[c].send = conns[c].send
                    /\ \A i \in DOMAIN broadcast' : broadcast'[i] # Head(broadcast)]_vars

\* C11 witness: a connection whose pumps still run has been closed and
\* removed by a broadcast that found its queue full.
C11_Witness ==
    \E c \in Conns :
        /\ conns[c].sendClosed
        /\ conns[c].read = "reading"
        /\ c \notin Registered
        /\ Len(conns[c].send) = SendCap

\* C12: a NotifyExport* call is always possible and returns nil; when
\* h.broadcast is full the queue is left as it is and the message is
\* dropped, and a dropped message never shows up in any queue or on any wire.
C12_BroadcastNeverBlocks ==
    /\ [](Len(published) < MaxMessages => \A u \in Users : ENABLED NotifyExport(u))
    /\ [](\A i \in DOMAIN published :
            published[i].dropped =>
                /\ \A k \in DOMAIN broadcast : broadcast[k] # published[i].message
                /\ \A c \in Conns : ~Holds(c, published[i].message))
    /\ [][published' # published =>
            /\ notifyRet' = Nil
            /\ IF Len(broadcast) >= BroadcastCap
               THEN broadcast' = broadcast /\ published'[Len(published')].dropped
               ELSE /\ broadcast' = Append(broadcast, published'[Len(published')].message)
                    /\ ~published'[Len(published')].dropped]_vars

\* C12 witness: a message was dropped on a full h.broadcast and the caller
\* got nil.
C12_Witness ==
    /\ notifyRet = Nil
    /\ Len(broadcast) = BroadcastCap
    /\ published # <<>>
    /\ published[Len(published)].dropped

\* C13: when Run handles a broadcast for a user with no registered
\* connection, the registry (its set of user entries included) and every
\* connection are unchanged.
C13_NoConnectionsNoOp ==
    [][IsRunBroadcast /\ ConnectionsOf(Head(broadcast).UserID) = {} =>
            /\ connections' = connections
            /\ conns' = conns
            /\ hubPc' = hubPc]_vars

\* C13 witness: a message for a user who never had a connection has been
\* handled, and the user has no entry.
C13_Witness ==
    \E i \in DOMAIN published :
        LET m == published[i].message
        IN  /\ ~published[i].dropped
            /\ \A k \in DOMAIN broadcast : broadcast[k] # m
            /\ \A c \in Conns : conns[c].userID # m.UserID
            /\ m.UserID \notin DOMAIN connections
            /\ \E c \in Conns : c \in Registered

\* C14: when Run handles a broadcast for user U, the message is appended,
\* once, to the queue of exactly the connections registered under U whose
\* queue is not full; every other queue is unchanged, and a connection
\* never holds a message of another user.
C14_ExactlyTheUsersConnections ==
    /\ [](\A c \in Conns : \A i \in DOMAIN Delivered(c) :
            Delivered(c)[i].UserID = conns[c].userID)
    /\ [][IsRunBroadcast =>
            \A c \in Conns :
                IF c \in ConnectionsOf(Head(broadcast).UserID) /\ ~Saturated(c)
                THEN conns'[c].send = Append(conns[c].send, Head(broadcast))
                ELSE conns'[c].send = conns[c].send]_vars

\* C14 witness: of two registered connections of different users one holds
\* a message and the other, with room in its queue, does not.
C14_Witness ==
    \E c, d \in Conns :
        /\ c \in Registered /\ d \in Registered
        /\ conns[c].userID # conns[d].userID
        /\ conns[c].send # <<>>
        /\ Delivered(d) = <<>>
        /\ conns[d].write = "running"

C16_DisconnectCleansRegistry ==
    \A c \in Conns :
        (conns[c].peer = "gone" /\ c \in Registered) ~>
            \/ hubCtx = "cancelled"
            \/ /\ c \notin Registered
               /\ conns[c].sendClosed
               /\ ConnectionsOf(conns[c].userID) = {} =>
                     conns[c].userID \notin DOMAIN connections

\* C16: after a registered connection's client has gone, and unless the hub
\* is cancelled, the connection ends up out of the registry with its queue
\* closed; the unregister step that removes it closes its queue and deletes
\* the user's entry if that removal empties the set.  (A connection already
\* removed by a broadcast on its full queue leaves its user's empty entry.)
C16_DisconnectUnregisters ==
    /\ \A c \in Conns :
          (conns[c].peer = "gone" /\ c \in Registered) ~>
              \/ hubCtx = "cancelled"
              \/ c \notin Registered /\ conns[c].sendClosed
    /\ [][\A c \in Conns :
            conns[c].read = "unregister" /\ conns'[c].read = "done" /\ c \in Registered =>
                /\ c \notin UNION {connections'[u] : u \in DOMAIN connections'}
                /\ conns'[c].sendClosed
                /\ connections[conns[c].userID] = {c} =>
                      conns[c].userID \notin DOMAIN connections']_vars

\* C16 witness: a connection whose client went away has been unregistered,
\* its queue is closed and its user's entry is gone, the hub still running.
C16_Witness ==
    \E c \in Conns :
        /\ conns[c].peer = "gone"
        /\ conns[c].read = "done"
        /\ conns[c].sendClosed
        /\ conns[c].userID \notin DOMAIN connections
        /\ hubPc = "running" /\ hubCtx = "active"

\* C17: once the hub's context is cancelled Run exits, and the step in which
\* it exits closes the socket of every connection then in the registry.
C17_ShutdownClosesSockets ==
    /\ (hubCtx = "cancelled") ~> (hubPc = "exited")
    /\ [][hubPc = "running" /\ hubPc' = "exited" =>
            \A c \in Registered : conns'[c].ws = "closed"]_vars

\* C17 witness: Run has exited and a registered connection, whose client
\* is still there and whose pumps have not ended, has its socket closed.
C17_Witness ==
    \E c \in Registered :
        /\ hubPc = "exited"
        /\ conns[c].ws = "closed"
        /\ conns[c].peer = "connected"
        /\ conns[c].read = "reading"
        /\ conns[c].write = "running"

\* C18: after Run has exited on cancellation, every connection that was in
\* the registry has its readPump finish: its unregister is received and the
\* pump returns.
C18_ShutdownUnregistersAll ==
    \A c \in Conns :
        (hubPc = "exited" /\ c \in Registered) ~> (conns[c].read = "done")

-----------------------------------------------------------------------------
(* Properties of the retry loop *)

FailTwiceThenSucceed == [k \in 1..attempts |-> k = attempts]

\* C19: a call makes at most 3 storage attempts; it reports success exactly on the
\* first attempt that succeeds and makes none after it; with a storage
\* client that fails twice and then succeeds, and no cancellation, the call
\* reports success after exactly 3 attempts.
C19_ThreeAttemptsFirstSuccess ==
    /\ s3call.made <= 3
    /\ s3call.result = "ok" =>
          /\ s3call.pc = "done"
          /\ s3call.script[s3call.made]
          /\ s3call.ctx = "active" => \A k \in 1..(s3call.made - 1) : ~s3call.script[k]
    /\ s3call.pc = "done" /\ s3call.ctx = "active" /\ s3call.script = FailTwiceThenSucceed =>
          s3call.result = "ok" /\ s3call.made = 3

\* C19 witness: the call has returned success after two failed attempts.
C19_Witness ==
    /\ s3call.pc = "done"
    /\ s3call.script = FailTwiceThenSucceed
    /\ s3call.result = "ok"
    /\ s3call.made = 3

\* C20: when the context is cancelled before an attempt or during a
\* backoff wait, no storage attempt is started afterwards, the call returns
\* ctx.Err(), and it does so in its next step or, from a wait whose timer
\* has fired too, in the one after.
C20_CancellationStopsRetries ==
    /\ [](s3call.cancelAt \in {"top", "backoff"} =>
            /\ s3call.made = s3call.madeAtCancel
            /\ s3call.pc = "done" => s3call.result = "ctx.Err")
    /\ [][s3call.ctx = "cancelled" /\ s3call.pc \in {"top", "backoff"} /\ s3call' # s3call =>
            /\ s3call'.made = s3call.made
            /\ s3call.pc = "top" => s3call'.pc = "done"
            /\ s3call'.pc \in {"top", "done"}]_vars

\* C20 witness: a call cancelled during the wait after its first failed
\* attempt has returned ctx.Err() without a second attempt.
C20_Witness ==
    /\ s3call.pc = "done"
    /\ s3call.cancelAt = "backoff"
    /\ s3call.result = "ctx.Err"
    /\ s3call.made = 1

-----------------------------------------------------------------------------
(* Exhausted retries *)

\* The waits of a call whose attempts all fail: the first, then its double.
DoublingWaits(first) == <<first, 2 * first>>

\* C21: a call whose attempts all fail returns the "failed after 3 attempts"
\* error after exactly 3 attempts and exactly 2 waits, of 500 ms then 1000 ms
\* for the upload and 300 ms then 600 ms for the signing; no call makes a
\* fourth attempt or begins a third wait, and none waits after its last
\* attempt.
C21_ExhaustedAfterThreeAttempts ==
    /\ s3call.made <= 3
    /\ Len(s3call.waits) <= 2
    /\ Len(s3call.waits) = 2 => s3call.made >= 2
    /\ s3call.pc = "backoff" => s3call.made < 3
    /\ s3call.result = "failed after 3 attempts" =>
          /\ s3call.pc = "done"
          /\ s3call.made = 3
          /\ s3call.op = "UploadXLSX" => s3call.waits = <<500, 1000>>
          /\ s3call.op = "GetTemporaryURL" => s3call.waits = <<300, 600>>
          /\ s3call.waits = DoublingWaits(s3call.waits[1])

\* C21 witness: an upload whose three attempts failed, with no cancellation.
C21_Witness ==
    /\ s3call.op = "UploadXLSX"
    /\ s3call.ctx = "active"
    /\ s3call.script = [k \in 1..attempts |-> FALSE]
    /\ s3call.result = "failed after 3 attempts"
    /\ s3call.waits = <<500, 1000>>

-----------------------------------------------------------------------------
(* The task's writes and events *)

\* The calls a job's task has made: what follows the start of the task.
TaskLog(r) ==
    IF \E i \in DOMAIN log[r] : log[r][i].op = "go"
    THEN SubSeq(log[r], (CHOOSE i \in DOMAIN log[r] : log[r][i].op = "go") + 1,
                Len(log[r]))
    ELSE <<>>

\* The task's calls other than the commands sent to Redis.
NonRedis(r) == SelectSeq(TaskLog(r), LAMBDA c : c.op \notin RedisOps)

\* The progress events of a job, in the order of their publication.
ProgressEvents(r) == SelectSeq(log[r], LAMBDA c : c.op = "export_progress")

\* The writes of a status without an error message to a job's primary key by
\* its task, and its progress events, in the order they were made.
WritesAndEvents(r) ==
    SelectSeq(TaskLog(r), LAMBDA c : \/ c.op = "export_progress"
                                     \/ c.op = "set" /\ c.text = Nil)

\* C22: for every job, the task's checkpoint writes and its progress events
\* alternate, starting with a write, and each event carries the progress of
\* the write before it: the published values are the written values, in
\* order, each event after its write and before the next write.
C22_EventsFollowWrites ==
    \A r \in Requests :
        LET both == WritesAndEvents(r)
        IN  /\ Len(both) % 2 = 0
            /\ \A k \in 1..(Len(both) \div 2) :
                  /\ both[2 * k - 1].op = "set"
                  /\ both[2 * k].op = "export_progress"
                  /\ both[2 * k].progress = both[2 * k - 1].progress

\* C22 witness: a job that has published its "ready" event after three
\* checkpoints of the row loop.
C22_Witness ==
    \E r \in Requests :
        /\ Len(ProgressEvents(r)) = 5
        /\ ProgressEvents(r)[5].text = "ready"

\* The rows after which the loop has a checkpoint, as the claim lists them.
ClaimedRows(total) ==
    {k * 1000 : k \in 1..(total \div 1000)} \cup {total}

\* The "generating" events of a job.
Generating(r) ==
    SelectSeq(log[r], LAMBDA c : c.op = "export_progress" /\ c.text = "generating")

\* The calls a task makes that no failure stops, for a kind with checkpoints
\* in its row loop and a result of `total` rows.
RECURSIVE GeneratingFrom(_, _)
GeneratingFrom(rowsDone, total) ==
    IF rowsDone >= total THEN <<>>
    ELSE LET n == CHOOSE m \in ClaimedRows(total) :
                      m > rowsDone /\ \A q \in ClaimedRows(total) : q > rowsDone => m <= q
         IN  <<NotifyExportProgress(CheckpointProgress(n, total), "generating")>>
             \o GeneratingFrom(n, total)

CompletePath(kind, total) ==
    <<Call("list", -1, Nil, "ok")>>
    \o (IF HasCheckpoints(kind) THEN GeneratingFrom(0, total) ELSE <<>>)
    \o <<NotifyExportProgress(uploadProgress, "uploading"), Call("upload", -1, Nil, "ok")>>
    \o (IF UsesS3(kind) THEN <<Call("sign", -1, Nil, "ok")>> ELSE <<>>)
    \o <<NotifyExportProgress(doneProgress, "ready"),
         NotifyExportComplete(FileURL(kind), FileName(kind))>>

\* The last call of a finished task, Redis apart, is one the task ends on.
EndsWhereTheCodeEnds(r) ==
    LET calls == NonRedis(r)
        last  == calls[Len(calls)]
    IN  /\ calls # <<>>
        /\ \/ last.op = "list" /\ last.text = "err"
           \/ last.op = "list" /\ last.text = "ok" /\ jobs[r].cols = <<>>
           \/ last.op = "write_to_buffer"
           \/ last.op = "upload" /\ last.text = "err"
           \/ last.op = "sign" /\ last.text = "err"
           \/ last.op = "export_complete"
           \/ last.op = "export_failed"

\* C23: whichever Redis commands fail and whenever, an accepted Submit has
\* started its task; a task ends only where it ends when the writes succeed
\* (a failed fetch, no column, a failed rendering, upload or signing, or its
\* final notification); and a task that ends with the complete event has
\* made exactly the calls, Redis apart, of a run whose writes all succeed.
C23_WriteFailuresNeverAbort ==
    \A r \in Requests :
        /\ jobs[r].result = "accepted" =>
              \E i \in DOMAIN log[r] : log[r][i].op = "go"
        /\ Finished(r) /\ jobs[r].result = "accepted" => EndsWhereTheCodeEnds(r)
        /\ (jobs[r].pc \notin {"new", "fetch"} /\ jobs[r].result = "accepted"
              /\ HasCheckpoints(jobs[r].kind) /\ jobs[r].cols # <<>>) =>
              Len(Generating(r)) =
                  Cardinality({m \in ClaimedRows(jobs[r].total) :
                                  m <= jobs[r].rowsDone /\ m > 0})
        /\ (\E i \in DOMAIN log[r] : log[r][i].op = "export_complete") =>
              NonRedis(r) = CompletePath(jobs[r].kind, jobs[r].total)

\* C23 witness: a job of 2500 rows has ended with its complete event while
\* no SET of its status ever succeeded.
C23_Witness ==
    \E r \in Requests :
        /\ Finished(r)
        /\ jobs[r].total = 2500
        /\ HasCheckpoints(jobs[r].kind)
        /\ \E i \in DOMAIN log[r] : log[r][i].op = "export_complete"
        /\ r \notin DOMAIN primary
        /\ r \notin DOMAIN legacy

-----------------------------------------------------------------------------
(* The list of a user's jobs *)

\* C25: the list answered to a caller holds, once each, exactly the IDs of
\* the index set whose key is present in Redis, holds a parseable status and
\* is owned by the caller; no entry is before one created later; a missing
\* or unparseable key is no error.
C25_ListIsOwnersJobsNewestFirst ==
    resp.caller # 0 =>
        LET data == resp.data
        IN  /\ resp.code = 200
            /\ {data[i].key : i \in DOMAIN data}
                  = {id \in exportIds : /\ id \in DOMAIN primary
                                        /\ primary[id] # Garbage
                                        /\ primary[id].user_id = resp.caller}
            /\ \A i, j \in DOMAIN data : i # j => data[i].key # data[j].key
            /\ \A i \in DOMAIN data : data[i].user_id = resp.caller
            /\ \A i, j \in DOMAIN data :
                  i < j => primary[data[i].key].created_at
                              >= primary[data[j].key].created_at

\* C25 witness: the caller is answered two jobs created at different times,
\* the index holding also an ID of a job that is absent, unparseable or
\* another user's.
C25_Witness ==
    /\ resp.caller # 0
    /\ Len(resp.data) = 2
    /\ primary[resp.data[1].key].created_at > primary[resp.data[2].key].created_at
    /\ resp.data[1].key < resp.data[2].key
    /\ \E id \in exportIds :
          \/ id \notin DOMAIN primary
          \/ primary[id] = Garbage
          \/ primary[id].user_id # resp.caller

-----------------------------------------------------------------------------
(* A saved file and its download *)

\* C26: a file that was saved is stored under the random digits, an
\* underscore and the base name of the name given, and its download is
\* answered 200 with that base name as the filename of Content-Disposition.
C26_ServedNameIsBaseName ==
    /\ fileReq.pc \in {"saved", "served"} =>
          /\ fileReq.final = fileReq.unique \o <<"_">> \o Base(fileReq.name)
          /\ fileReq.stored = fileReq.final
    /\ fileReq.pc = "served" =>
          /\ fileReq.code = 200
          /\ fileReq.disposition = Base(fileReq.name)

-----------------------------------------------------------------------------
(* Tasks that end early, and the upload *)

\* C27: a task whose fetch failed has ended, the fetch is its only call, and
\* the job's status in Redis is the one Submit wrote: progress 0, no URL, no
\* error message, under both keys.
C27_FetchErrorEndsSilently ==
    \A r \in Requests :
        (\E i \in DOMAIN log[r] : log[r][i].op = "list" /\ log[r][i].text = "err") =>
            /\ Finished(r)
            /\ TaskLog(r) = <<Call("list", -1, Nil, "err")>>
            /\ primary[r].progress = 0
            /\ primary[r].file_url = Nil
            /\ primary[r].error = Nil
            /\ legacy[r].progress = 0
            /\ legacy[r].file_url = "N;"

\* C27 witness: a job whose fetch failed.
C27_Witness ==
    \E r \in Requests :
        /\ Finished(r)
        /\ \E i \in DOMAIN log[r] : log[r][i].op = "list" /\ log[r][i].text = "err"
        /\ r \in DOMAIN primary

\* The positions of a selection whose key the registry knows.
Known(kind, selected) == {i \in DOMAIN selected : selected[i] \in Registry(kind)}

\* C28: after a successful fetch, the columns of the task are the selected
\* keys the registry knows, in the order of the selection; when there is
\* none, the task has ended, the fetch is its only call and the status in
\* Redis is the one Submit wrote.
C28_UnknownKeysSkipped ==
    \A r \in Requests :
        (\E i \in DOMAIN log[r] : log[r][i].op = "list" /\ log[r][i].text = "ok") =>
            LET known == Known(jobs[r].kind, jobs[r].selected)
            IN  /\ Len(jobs[r].cols) = Cardinality(known)
                /\ \A i \in known :
                      jobs[r].cols[Cardinality({j \in known : j <= i})] = jobs[r].selected[i]
                /\ known = {} =>
                      /\ Finished(r)
                      /\ TaskLog(r) = <<Call("list", -1, Nil, "ok")>>
                      /\ primary[r].progress = 0
                      /\ primary[r].file_url = Nil
                      /\ primary[r].error = Nil

\* C28 witness: a task whose selection has an unknown key between two known
\* ones, the second of the registry first, has resolved its columns.
C28_Witness ==
    \E r \in Requests :
        /\ Len(jobs[r].selected) = 3
        /\ jobs[r].selected[2] \notin Registry(jobs[r].kind)
        /\ jobs[r].cols = <<jobs[r].selected[1], jobs[r].selected[3]>>
        /\ jobs[r].cols = <<DefaultFields(jobs[r].kind)[2], DefaultFields(jobs[r].kind)[1]>>

\* C28's other case: a task no selected key of which resolved has ended.
C28_WitnessNoColumn ==
    \E r \in Requests :
        /\ Finished(r)
        /\ jobs[r].selected # <<>>
        /\ Known(jobs[r].kind, jobs[r].selected) = {}
        /\ TaskLog(r) = <<Call("list", -1, Nil, "ok")>>

\* C29: every call of the storage upload in a job's history comes after a
\* SET of the status at 95 under the primary key, a SET at 95 under the
\* legacy key and the "uploading" event with the value 95.
C29_UploadAfterNinetyFive ==
    \A r \in Requests :
        \A u \in DOMAIN log[r] :
            log[r][u].op = "upload" =>
                \E a, b, c \in 1..(u - 1) :
                    /\ log[r][a] = Call("set", 95, Nil, Nil)
                    /\ log[r][b].op = "set_legacy" /\ log[r][b].progress = 95
                    /\ log[r][c] = Call("export_progress", 95, Nil, "uploading")
                    /\ a < c
                    /\ b < c

\* C29 witness: an actions task, which has no checkpoint at 95 before, has
\* called the upload.
C29_Witness ==
    \E r \in Requests :
        /\ jobs[r].kind = "actions"
        /\ \E u \in DOMAIN log[r] : log[r][u].op = "upload"

\* C30: an actions task that has rendered its rows has published one
\* "generating" event, after a write of the status, for each of the rows
\* 1000, 2000, ... and the last one.
C30_ActionsCheckpoints ==
    \A r \in Requests :
        (jobs[r].kind = "actions" /\ jobs[r].total > 0
            /\ jobs[r].rowsDone = jobs[r].total) =>
            Len(Generating(r)) = Cardinality(ClaimedRows(jobs[r].total))

-----------------------------------------------------------------------------
(* The life of a status and of a connection *)

\* The status writes of a job to its primary key, in order.
StatusWrites(r) == CallsOf(r, "set")

\* C31: in every job's history, no write of the status follows a write with
\* progress 100; the URL written changes at most once, from none to a URL,
\* and so does the error message; no write has both a URL and an error.
C31_TerminalIsAbsorbing ==
    \A r \in Requests :
        LET w == StatusWrites(r)
        IN  /\ \A i \in DOMAIN w : w[i].progress = doneProgress => i = Len(w)
            /\ \A i \in 1..(Len(w) - 1) :
                  /\ w[i].url # w[i + 1].url => w[i].url = Nil
                  /\ w[i].text # w[i + 1].text => w[i].text = Nil
            /\ \A i \in DOMAIN w : w[i].url = Nil \/ w[i].text = Nil
            /\ Finished(r) /\ r \in DOMAIN primary /\ w # <<>> =>
                  /\ primary[r].progress = w[Len(w)].progress
                  /\ primary[r].file_url = w[Len(w)].url
                  /\ primary[r].error = w[Len(w)].text

\* C31 witness: a payments task has ended after writing the error of a
\* failed save at progress 100.
C31_Witness ==
    \E r \in Requests :
        /\ Finished(r)
        /\ jobs[r].kind = "payments"
        /\ primary[r].progress = doneProgress
        /\ primary[r].error # Nil
        /\ primary[r].file_url = Nil

\* A duty of the connection has exited its loop.
DutyExited(c) ==
    conns[c].write = "done" \/ conns[c].read \in {"unregister", "done"}

\* C32: after either duty of a connection has left its loop, the socket is
\* eventually closed and the read duty has made its send on h.unregister
\* (which Run has taken or not).
C32_DutyExitTearsDown ==
    \A c \in Conns :
        DutyExited(c) ~>
            (conns[c].ws = "closed" /\ conns[c].read \in {"unregister", "done"})

\* C32 witness: the write duty of a connection whose client is still there
\* has exited, the socket is closed and the read duty has made its send.
C32_Witness ==
    \E c \in Conns :
        /\ conns[c].write = "done"
        /\ conns[c].peer = "connected"
        /\ conns[c].ws = "closed"
        /\ conns[c].read = "unregister"
        /\ hubCtx = "active"

\* C33: a connection is in the registry, and its duties run, only after Run
\* has taken its register request; it enters the registry only in that step,
\* which happens once; its unregister request is taken only after that.
C33_ConnectionLifecycle ==
    /\ [](\A c \in Conns :
            /\ c \in Registered => conns[c].handler = "done"
            /\ conns[c].read # "none" => conns[c].handler = "done"
            /\ conns[c].write # "none" => conns[c].handler = "done")
    /\ [][\A c \in Conns :
            /\ (c \notin Registered /\ c \in Registered') =>
                  (conns[c].handler = "register" /\ conns'[c].handler = "done")
            /\ conns[c].handler = "done" => conns'[c].handler = "done"
            /\ (conns[c].read = "unregister" /\ conns'[c].read = "done") =>
                  conns[c].handler = "done"
            /\ conns[c].read = "done" => c \notin Registered']_vars

\* C33 witness: a connection that was registered is out of the registry after
\* its unregister request was taken, while another one is still connecting.
C33_Witness ==
    \E c, d \in Conns :
        /\ conns[c].handler = "done"
        /\ conns[c].read = "done"
        /\ conns[c].closedBy = "unregister"
        /\ c \notin Registered
        /\ conns[d].handler = "register"

\* C35: close(conn.send) is executed at most once for every connection.
C35_QueueClosedAtMostOnce ==
    \A c \in Conns : conns[c].closes <= 1

\* C35 witness: a connection evicted by a broadcast has had its unregister
\* request taken afterwards, and the hub has shut down.
C35_Witness ==
    \E c \in Conns :
        /\ conns[c].closedBy = "broadcast"
        /\ conns[c].read = "done"
        /\ conns[c].closes = 1
        /\ hubPc = "exited"

\* C36: a connection in the registry has an open queue; a queue is closed
\* only in a step that takes its connection out of the registry; a message
\* is put only on an open queue.
C36_RegisteredQueueOpen ==
    /\ [](\A c \in Registered : ~conns[c].sendClosed /\ conns[c].closes = 0)
    /\ [][\A c \in Conns :
            /\ conns'[c].closes > conns[c].closes =>
                  (c \in Registered /\ c \notin Registered')
            /\ conns'[c].queued # conns[c].queued =>
                  (~conns[c].sendClosed /\ c \in Registered)]_vars

\* C36 witness: a connection with a message in its queue is in the registry
\* while another one has been evicted.
C36_Witness ==
    \E c, d \in Conns :
        /\ c \in Registered
        /\ conns[c].send # <<>>
        /\ conns[d].closedBy = "broadcast"

\* C37: no user of the registry has an empty set of connections.
C37_NoEmptyEntry ==
    \A u \in DOMAIN connections : connections[u] # {}

\* A connection closed by a broadcast whose duties have not both ended.
Evicted(c) == conns[c].closedBy = "broadcast"

TornDown(c) ==
    /\ conns[c].ws = "closed"
    /\ conns[c].write = "done"
    /\ conns[c].read = "done"

\* C38: unless the hub is cancelled, a connection evicted by a broadcast
\* ends with its socket closed and both duties terminated; the step of Run
\* that takes its unregister request changes neither the registry nor the
\* queue.
C38_EvictedIsTornDown ==
    /\ \A c \in Conns : Evicted(c) ~> (TornDown(c) \/ hubCtx = "cancelled")
    /\ [][\A c \in Conns :
            (Evicted(c) /\ conns[c].read = "unregister" /\ conns'[c].read = "done") =>
                /\ connections' = connections
                /\ conns'[c].closes = conns[c].closes
                /\ conns'[c].send = conns[c].send]_vars

\* C38 witness: an evicted connection is torn down and the hub's context is
\* live.
C38_Witness ==
    \E c \in Conns :
        /\ Evicted(c)
        /\ TornDown(c)
        /\ conns[c].peer = "connected"
        /\ hubCtx = "active"

\* C39: every HandleWebSocket call waiting on h.register eventually has its
\* request taken and returns.
C39_RegisterEventuallyAccepted ==
    \A c \in Conns : conns[c].handler = "register" ~> conns[c].handler = "done"

RedisKeys == {<<"primary", r>> : r \in Requests} \cup {<<"legacy", r>> : r \in Requests}

Present(k) ==
    IF k[1] = "primary" THEN k[2] \in DOMAIN primary ELSE k[2] \in DOMAIN legacy

\* C34: a status key, under either representation, is in Redis exactly from
\* its first write until 20 minutes after its last write; a key leaves
\* Redis only when time passes; an ID never leaves the index set, which
\* holds the ID of every job written.
C34_TwentyMinutesFromLastWrite ==
    /\ [](\A k \in RedisKeys :
            /\ Present(k) <=>
                  (k \in DOMAIN ttl.wroteAt /\ ttl.now < ttl.wroteAt[k] + 20)
            /\ (k[1] = "primary" /\ k \in DOMAIN ttl.wroteAt) => k[2] \in exportIds)
    /\ [][/\ (\E k \in RedisKeys : Present(k) /\ ~Present(k)') => ttl'.now > ttl.now
          /\ exportIds \subseteq exportIds']_vars

\* C34 witness: a job whose status was last written after time 0 has lost
\* both keys 20 minutes later, and its ID is in the index set.
C34_Witness ==
    \E r \in Requests :
        /\ <<"primary", r>> \in DOMAIN ttl.wroteAt
        /\ ttl.wroteAt[<<"primary", r>>] > 0
        /\ ttl.now >= ttl.wroteAt[<<"primary", r>>] + 20
        /\ r \notin DOMAIN primary
        /\ r \notin DOMAIN legacy
        /\ r \in exportIds

=============================================================================
